---- MODULE Spec2Model ----
(***************************************************************************)
(* A model of delphin.mrs.xmrs: the Xmrs graph (node ids, EP table, HCONS  *)
(* table, ICONS table, Variable Table with its reverse-reference index),   *)
(* the incremental add operations and the graph queries.                   *)
(*                                                                         *)
(* Python values are modelled as follows.  None is the string "None".      *)
(* A dict is a function whose DOMAIN is the key set.  A list is a          *)
(* sequence.  Where the code iterates over the items of a dict keyed by    *)
(* role, the model visits the roles in the fixed order RoleOrder; the      *)
(* formulas below read the lists so produced as bags only.  In a variable  *)
(* entry an absent 'hcrefs' / 'icrefs' key is the empty sequence (the code *)
(* reads them with .get(key, [])).                                         *)
(***************************************************************************)
EXTENDS Integers, Sequences, FiniteSets, TLC

VARIABLES top, index, xarg, nodeids, eps, hcons, icons, vars, ret

state == <<top, index, xarg, nodeids, eps, hcons, icons, vars, ret>>

(***************************************************************************)
(* Bounds of the model.                                                    *)
(***************************************************************************)
MaxNid == 2
MaxIcons == 1

NoneV == "None"
EmptyMap == [k \in {} |-> NoneV]

\* config.IVARG_ROLE, config.RSTR_ROLE, config.CONSTARG_ROLE and the reserved
\* label role of add_eps
IVARG_ROLE == "ARG0"
RSTR_ROLE == "RSTR"
CONSTARG_ROLE == "CARG"
LBL == "LBL"

\* the order in which the items of a role-keyed dict are visited
RoleOrder == <<LBL, IVARG_ROLE, "ARG1", "ARG2", RSTR_ROLE, CONSTARG_ROLE>>

\* the serial numbers of the variable names of the model
Serials == 0..9

\* the variable-shaped strings: handles and individuals/events (a sort
\* letter followed by a serial number), and a constant that is not
\* variable-shaped
Handles == {"h" \o ToString(i) : i \in Serials}
Individuals == {s \o ToString(i) : s \in {"x", "e"}, i \in Serials}
Constants == {"c"}

\* components.var_re: a non-digit prefix followed by digits
var_re(val) == val \in Handles \cup Individuals

\* components.Pred.is_quantifier / ElementaryPredication.is_quantifier
QuantifierPreds == {"_q"}
is_quantifier(ep) == ep.pred \in QuantifierPreds

NodeIds == 1..MaxNid

RangeOf(s) == {s[i] : i \in 1..Len(s)}

RECURSIVE SetToSeq(_)
SetToSeq(S) ==
    IF S = {} THEN <<>>
    ELSE LET x == CHOOSE y \in S : TRUE IN <<x>> \o SetToSeq(S \ {x})

\* the keys of a role-keyed dict, in visiting order
RolesOf(d) == SelectSeq(RoleOrder, LAMBDA r : r \in DOMAIN d)

(***************************************************************************)
(* The graph as one value, for the operators that compute on it.           *)
(***************************************************************************)
Graph(t, i, x, n, e, h, ic, v) ==
    [top |-> t, index |-> i, xarg |-> x, nodeids |-> n, eps |-> e,
     hcons |-> h, icons |-> ic, vars |-> v]

self == Graph(top, index, xarg, nodeids, eps, hcons, icons, vars)

\* Xmrs.__init__ with no eps, hcons, icons and vars
EmptyGraph(t, i, x) ==
    Graph(t, i, x, <<>>, EmptyMap, EmptyMap, EmptyMap,
          [v \in {t, i, x} \ {NoneV} |->
              [props |-> <<>>, refs |-> EmptyMap, hcrefs |-> <<>>, icrefs |-> <<>>]])

(***************************************************************************)
(* The Variable Table: a defaultdict whose entries appear on first access. *)
(***************************************************************************)
NewVar == [props |-> <<>>, refs |-> EmptyMap, hcrefs |-> <<>>, icrefs |-> <<>>]

\* _vars[v]
Ensure(vs, v) == IF v \in DOMAIN vs THEN vs ELSE vs @@ (v :> NewVar)

\* _vars[v]['refs'][role]
EnsureRole(vs, v, role) ==
    LET vs1 == Ensure(vs, v) IN
    IF role \in DOMAIN vs1[v].refs THEN vs1
    ELSE [vs1 EXCEPT ![v].refs = @ @@ (role :> <<>>)]

\* _vars[v]['refs'][role].append(nodeid) without the append (the mutant of AddRef)
AddRefDropped(vs, v, role, nodeid) == EnsureRole(vs, v, role)

\* _vars[v]['refs'][role].append(...) of a node id that is not the one of
\* the EP (another mutant of AddRef)
AddRefOther(vs, v, role, nodeid) ==
    [EnsureRole(vs, v, role) EXCEPT ![v].refs[role] = Append(@, nodeid + 100)]

\* _vars[v]['refs'][role].append(nodeid)
AddRef(vs, v, role, nodeid) ==
    [EnsureRole(vs, v, role) EXCEPT ![v].refs[role] = Append(@, nodeid)]

(***************************************************************************)
(* add_eps                                                                 *)
(***************************************************************************)
\* the loop over ep.args.items() of add_eps, from position i of the roles
RECURSIVE AddArgRefs(_, _, _, _)
AddArgRefs(vs, ep, roles, i) ==
    IF i > Len(roles) THEN vs
    ELSE LET role == roles[i]
             val == ep.args[role]
         IN IF val \in DOMAIN vs \/ var_re(val)
            THEN AddArgRefs(AddRef(vs, val, role, ep.nodeid), ep, roles, i + 1)
            ELSE AddArgRefs(vs, ep, roles, i + 1)

\* the duplicate test of add_eps, never true (the mutant of EpExists)
EpExistsNever(g, nodeid) == FALSE

\* "nodeid in _eps"
EpExists(g, nodeid) == nodeid \in DOMAIN g.eps

\* the body of the loop of add_eps for one record that is not a duplicate
StoreEp(g, ep) ==
    LET vs1 == IF ep.label # NoneV THEN AddRef(g.vars, ep.label, LBL, ep.nodeid)
               ELSE g.vars
    IN [g EXCEPT !.nodeids = Append(@, ep.nodeid),
                 !.eps = (ep.nodeid :> ep) @@ @,
                 !.vars = AddArgRefs(vs1, ep, RolesOf(ep.args), 1)]

\* add_eps(eps): the records in order; stops at the first duplicate node id
\* (err is the exception raised, at the node id it names)
RECURSIVE add_eps(_, _)
add_eps(g, batch) ==
    IF batch = <<>> THEN [g |-> g, err |-> NoneV, at |-> NoneV]
    ELSE LET ep == Head(batch) IN
         IF EpExists(g, ep.nodeid)
         THEN [g |-> g, err |-> "XmrsError: EP already exists in Xmrs", at |-> ep.nodeid]
         ELSE add_eps(StoreEp(g, ep), Tail(batch))

(***************************************************************************)
(* add_hcons                                                               *)
(***************************************************************************)
\* the (nodeid, role, hi) triples for the references to hi, role by role
RECURSIVE HcRefsOf(_, _, _)
HcRefsOf(refs, roles, hi) ==
    IF roles = <<>> THEN <<>>
    ELSE [k \in 1..Len(refs[Head(roles)]) |->
             <<refs[Head(roles)][k], Head(roles), hi>>]
         \o HcRefsOf(refs, Tail(roles), hi)

\* the duplicate test of add_hcons, never true (the mutant of HcExists)
HcExistsNever(g, hi) == FALSE

\* hi in _hcons
HcExists(g, hi) == hi \in DOMAIN g.hcons

\* the body of the loop of add_hcons for one constraint whose hi is new
StoreHc(g, hc) ==
    LET vs1 == Ensure(g.vars, hc.lo)
        vs2 == Ensure(vs1, hc.hi)
    IN [g EXCEPT !.hcons = (hc.hi :> hc) @@ @,
                 !.vars = [vs2 EXCEPT ![hc.lo].hcrefs =
                              @ \o HcRefsOf(vs2[hc.hi].refs, RolesOf(vs2[hc.hi].refs), hc.hi)]]

\* add_hcons(hcons): the constraints in order; stops at the first duplicate hi
RECURSIVE add_hcons(_, _)
add_hcons(g, batch) ==
    IF batch = <<>> THEN [g |-> g, err |-> NoneV, at |-> NoneV]
    ELSE LET hc == Head(batch) IN
         IF HcExists(g, hc.hi)
         THEN [g |-> g, err |-> "XmrsError: Handle constraint already exists", at |-> hc.hi]
         ELSE add_hcons(StoreHc(g, hc), Tail(batch))

(***************************************************************************)
(* add_icons                                                               *)
(***************************************************************************)
\* the body of the loop of add_icons for one constraint
StoreIc(g, ic) ==
    LET ics == IF ic.left \in DOMAIN g.icons THEN g.icons
               ELSE g.icons @@ (ic.left :> <<>>)
        vs1 == Ensure(g.vars, ic.right)
        vs2 == [vs1 EXCEPT ![ic.right].icrefs = Append(@, ic)]
    IN [g EXCEPT !.icons = [ics EXCEPT ![ic.left] = Append(@, ic)],
                 !.vars = Ensure(vs2, ic.left)]

\* add_icons(icons): never fails on well-shaped records
RECURSIVE add_icons(_, _)
add_icons(g, batch) ==
    IF batch = <<>> THEN [g |-> g, err |-> NoneV, at |-> NoneV]
    ELSE add_icons(StoreIc(g, Head(batch)), Tail(batch))

(***************************************************************************)
(* Accessors                                                               *)
(***************************************************************************)
\* Xmrs.eps(): the EPs in node-id order
EpSeq(g) == [k \in 1..Len(g.nodeids) |-> g.eps[g.nodeids[k]]]

\* _eps[nodeid][3].get(IVARG_ROLE)
IvOf(ep) == IF IVARG_ROLE \in DOMAIN ep.args THEN ep.args[IVARG_ROLE] ELSE NoneV

\* Xmrs.labelset(label): the list _vars[label]['refs']['LBL'], created when absent
labelset(g, label) ==
    LET vs == EnsureRole(g.vars, label, LBL) IN
    [val |-> vs[label].refs[LBL], g |-> [g EXCEPT !.vars = vs]]

\* Xmrs.nodeids(ivs=[iv], quantifier=q): the node ids, or the KeyError
nodeids_iv(g, iv, q) ==
    IF iv \in DOMAIN g.vars /\ IVARG_ROLE \in DOMAIN g.vars[iv].refs
    THEN [raised |-> NoneV,
          val |-> SelectSeq(g.vars[iv].refs[IVARG_ROLE],
                            LAMBDA n : is_quantifier(g.eps[n]) = q)]
    ELSE [raised |-> "KeyError", val |-> <<>>]

(***************************************************************************)
(* _bfs and is_connected                                                   *)
(***************************************************************************)
\* the while loop of _bfs over the adjacency dict adj (node id -> set)
RECURSIVE BfsLoop(_, _, _)
BfsLoop(adj, agenda, seen) ==
    IF agenda = <<>> THEN seen
    ELSE LET x == Head(agenda) IN
         IF x \in seen THEN BfsLoop(adj, Tail(agenda), seen)
         ELSE LET seen1 == seen \cup {x}
                  nbrs == IF x \in DOMAIN adj THEN adj[x] ELSE {}
              IN BfsLoop(adj, Tail(agenda) \o SetToSeq(nbrs \ seen1), seen1)

\* _bfs(g, start) for a non-empty dict g; start stands for next(iter(g))
bfs(adj, start) == BfsLoop(adj, <<start>>, {})

\* the label connections of is_connected: (x, y) for x, y in a label set, x != y
LabelEdges(g, vs) ==
    UNION {LET l == g.eps[n].label
               lblset == RangeOf(vs[l].refs[LBL])
           IN {<<x, y>> : x \in lblset, y \in lblset} \ {<<x, x>> : x \in lblset}
           : n \in RangeOf(g.nodeids)}

\* tgtnids without the branch for a qeq high handle (the mutant of TgtNids)
TgtNidsNoQeq(g, vs, tgt) ==
    IF IVARG_ROLE \in DOMAIN vs[tgt].refs THEN RangeOf(vs[tgt].refs[IVARG_ROLE])
    ELSE IF LBL \in DOMAIN vs[tgt].refs THEN RangeOf(vs[tgt].refs[LBL])
    ELSE {}

\* tgtnids of is_connected for one argument value tgt that is in _vars
TgtNids(g, vs, tgt) ==
    IF IVARG_ROLE \in DOMAIN vs[tgt].refs THEN RangeOf(vs[tgt].refs[IVARG_ROLE])
    ELSE IF tgt \in DOMAIN g.hcons
         THEN LET lo == g.hcons[tgt].lo IN
              IF LBL \in DOMAIN vs[lo].refs THEN RangeOf(vs[lo].refs[LBL]) ELSE {}
    ELSE IF LBL \in DOMAIN vs[tgt].refs THEN RangeOf(vs[tgt].refs[LBL])
    ELSE {}

\* the argument connections of is_connected, in both directions
ArgEdges(g, vs) ==
    UNION {UNION {IF g.eps[n].args[r] \notin DOMAIN vs THEN {}
                  ELSE LET ts == TgtNids(g, vs, g.eps[n].args[r]) \ {n} IN
                       {<<n, t>> : t \in ts} \cup {<<t, n>> : t \in ts}
                  : r \in DOMAIN g.eps[n].args}
           : n \in RangeOf(g.nodeids)}

\* the low handles whose label set is looked up by the argument loop (each
\* lookup creates the 'LBL' list of that handle)
QeqLookups(g, vs) ==
    {g.hcons[g.eps[n].args[r]].lo :
        <<n, r>> \in {<<n, r>> \in RangeOf(g.nodeids) \X RangeOf(RoleOrder) :
                         /\ r \in DOMAIN g.eps[n].args
                         /\ g.eps[n].args[r] \in DOMAIN vs
                         /\ IVARG_ROLE \notin DOMAIN vs[g.eps[n].args[r]].refs
                         /\ g.eps[n].args[r] \in DOMAIN g.hcons}}

\* _vars after labelset() was called for every element of the sequence ls
RECURSIVE EnsureLabelsets(_, _)
EnsureLabelsets(vs, ls) ==
    IF ls = <<>> THEN vs
    ELSE EnsureLabelsets(EnsureRole(vs, Head(ls), LBL), Tail(ls))

\* g = {nid: set() for nid in nids}; for x, y in edges: g[x].add(y)
Adjacency(nids, edges) == [x \in nids |-> {e[2] : e \in {d \in edges : d[1] = x}}]

\* the list edges of is_connected, as a set of pairs
ConnEdges(g) ==
    LET vs1 == EnsureLabelsets(g.vars, [k \in 1..Len(g.nodeids) |->
                                           g.eps[g.nodeids[k]].label])
    IN LabelEdges(g, vs1) \cup ArgEdges(g, vs1)

\* the failure for a graph without EPs raised as another exception type (the
\* mutant of EmptyXmrs)
EmptyXmrsOtherType(g) == [raised |-> "ValueError", val |-> "empty", g |-> g]

\* is_connected on a graph without EPs: the XmrsError
EmptyXmrs(g) == [raised |-> "XmrsError", val |-> "empty", g |-> g]

\* Xmrs.is_connected(); start is the node id the traversal starts from.
\* The node ids are integers, so formatting the 'bogus nodeids' message fails
\* with a TypeError before the XmrsError is built.
is_connected(g, start) ==
    LET nids == RangeOf(g.nodeids) IN
    IF nids = {}
    THEN EmptyXmrs(g)
    ELSE LET vs1 == EnsureLabelsets(g.vars, [k \in 1..Len(g.nodeids) |->
                                                g.eps[g.nodeids[k]].label])
             edges == LabelEdges(g, vs1) \cup ArgEdges(g, vs1)
             vs2 == EnsureLabelsets(vs1, SetToSeq(QeqLookups(g, vs1)))
             g2 == [g EXCEPT !.vars = vs2]
         IN IF \E e \in edges : e[1] \notin nids
            THEN [raised |-> "KeyError", val |-> NoneV, g |-> g2]
            ELSE LET connected_nids == bfs(Adjacency(nids, edges), start) IN
                 IF connected_nids = nids
                 THEN [raised |-> NoneV, val |-> TRUE, g |-> g2]
                 ELSE IF connected_nids \ nids # {}
                 THEN [raised |-> "TypeError", val |-> NoneV, g |-> g2]
                 ELSE [raised |-> NoneV, val |-> FALSE, g |-> g2]

(***************************************************************************)
(* validate and is_well_formed                                             *)
(***************************************************************************)
\* the loop of validate over self.eps(), from position i: ivs and bvs are the
\* key sets of the dicts of the same name, errors the messages so far
RECURSIVE ValidateEps(_, _, _, _, _)
ValidateEps(epseq, i, ivs, bvs, errors) ==
    IF i > Len(epseq) THEN errors
    ELSE LET ep == epseq[i]
             iv == IvOf(ep)
             e1 == IF ep.label = NoneV
                   THEN Append(errors, <<"EP is missing a label", ep.nodeid>>)
                   ELSE errors
             e2 == IF iv = NoneV
                   THEN Append(e1, <<"EP is missing an intrinsic variable", NoneV>>)
                   ELSE e1
         IN IF is_quantifier(ep)
            THEN ValidateEps(epseq, i + 1, ivs, bvs \cup {iv},
                    IF iv \in bvs
                    THEN Append(e2, <<"bound variable for more than one quantifier", iv>>)
                    ELSE e2)
            ELSE ValidateEps(epseq, i + 1, ivs \cup {iv}, bvs,
                    IF iv \in ivs
                    THEN Append(e2, <<"intrinsic variable for more than one EP", iv>>)
                    ELSE e2)

\* the loop over _hcons.values() without its test (the mutant of ValidateHcons)
ValidateHconsNoTest(hcs, labels, errors) == errors

\* the loop of validate over _hcons.values()
RECURSIVE ValidateHcons(_, _, _)
ValidateHcons(hcs, labels, errors) ==
    IF hcs = <<>> THEN errors
    ELSE ValidateHcons(Tail(hcs), labels,
            IF Head(hcs).lo \notin labels
            THEN Append(errors, <<"Lo variable of HCONS is not the label of any EP",
                                  Head(hcs).hi>>)
            ELSE errors)

\* the messages a failure of is_connected carries out of validate in place of
\* the collected ones
ConnFailure(c) == <<<<c.raised, c.val>>>>

\* Xmrs.validate(): raised is None when it returns, else the exception type;
\* errors are the messages the exception carries
validate(g, start) ==
    LET epseq == EpSeq(g)
        labels == {epseq[k].label : k \in 1..Len(epseq)}
        e1 == ValidateEps(epseq, 1, {}, {}, <<>>)
        e2 == ValidateHcons([k \in 1..Len(SetToSeq(DOMAIN g.hcons)) |->
                                g.hcons[SetToSeq(DOMAIN g.hcons)[k]]], labels, e1)
        c == is_connected(g, start)
    IN IF c.raised # NoneV
       THEN [raised |-> c.raised, errors |-> ConnFailure(c), g |-> c.g]
       ELSE LET e3 == IF ~c.val
                      THEN Append(e2, <<"Xmrs structure is not connected", NoneV>>)
                      ELSE e2
            IN IF e3 # <<>> THEN [raised |-> "XmrsError", errors |-> e3, g |-> c.g]
               ELSE [raised |-> NoneV, errors |-> <<>>, g |-> c.g]

\* Xmrs.is_well_formed(): only an XmrsError of validate is caught
is_well_formed(g, start) ==
    LET v == validate(g, start) IN
    IF v.raised = NoneV THEN [raised |-> NoneV, val |-> TRUE, g |-> v.g]
    ELSE IF v.raised = "XmrsError" THEN [raised |-> NoneV, val |-> FALSE, g |-> v.g]
    ELSE [raised |-> v.raised, val |-> NoneV, g |-> v.g]

(***************************************************************************)
(* incoming_args                                                           *)
(***************************************************************************)
\* in_args_list of incoming_args: triples <<nids, role, tgt>> in list order
InArgsList(g, nodeid) ==
    LET ep == g.eps[nodeid]
        lbl == ep.label
        iv == IvOf(ep)
        RefTriples(v, skip) ==
            LET rs == SelectSeq(RolesOf(g.vars[v].refs), LAMBDA r : r # skip) IN
            [k \in 1..Len(rs) |-> <<g.vars[v].refs[rs[k]], rs[k], v>>]
    IN (IF iv \in DOMAIN g.vars THEN RefTriples(iv, IVARG_ROLE) ELSE <<>>)
       \o (IF lbl \in DOMAIN g.vars
           THEN RefTriples(lbl, LBL)
                \o [k \in 1..Len(g.vars[lbl].hcrefs) |->
                       <<<<g.vars[lbl].hcrefs[k][1]>>, g.vars[lbl].hcrefs[k][2],
                         g.vars[lbl].hcrefs[k][3]>>]
           ELSE <<>>)

\* Xmrs.incoming_args(nodeid): {nid: {role: tgt}}; a later entry of the list
\* for the same nid and role replaces an earlier one
incoming_args(g, nodeid) ==
    LET l == InArgsList(g, nodeid)
        Hits(nid, role) == {k \in 1..Len(l) : l[k][2] = role /\ nid \in RangeOf(l[k][1])}
        nidsIn == UNION {RangeOf(l[k][1]) : k \in 1..Len(l)}
    IN [nid \in nidsIn |->
          [role \in {l[k][2] : k \in {j \in 1..Len(l) : nid \in RangeOf(l[j][1])}} |->
              l[CHOOSE k \in Hits(nid, role) : \A j \in Hits(nid, role) : j <= k][3]]]

(***************************************************************************)
(* labelset_heads                                                          *)
(***************************************************************************)
\* out[n] counting the arguments other than ARG0 only, against the intrinsic
\* variables of the other EPs only (the mutant of OutDeg)
OutDegOthers(g, members, n) ==
    Cardinality({r \in DOMAIN g.eps[n].args \ {IVARG_ROLE} :
                    g.eps[n].args[r] \in {IvOf(g.eps[m]) : m \in members \ {n}} \ {NoneV}})

\* out[n]: the number of argument values of n that are keys of ivs
OutDeg(g, members, n) ==
    Cardinality({r \in DOMAIN g.eps[n].args :
                    g.eps[n].args[r] \in {IvOf(g.eps[m]) : m \in members} \ {NoneV}})

\* sum(1 for s in slist if s in nodeids)
RECURSIVE CountIn(_, _)
CountIn(slist, members) ==
    IF slist = <<>> THEN 0
    ELSE (IF Head(slist) \in members THEN 1 ELSE 0) + CountIn(Tail(slist), members)

\* sum(... for slist in _vars[iv]['refs'].values() ...)
RECURSIVE SumRefs(_, _, _)
SumRefs(refs, roles, members) ==
    IF roles = <<>> THEN 0
    ELSE CountIn(refs[Head(roles)], members) + SumRefs(refs, Tail(roles), members)

\* in_[n]
InDeg(g, members, n) ==
    LET iv == IvOf(g.eps[n]) IN
    IF iv \in DOMAIN g.vars
    THEN SumRefs(g.vars[iv].refs, RolesOf(g.vars[iv].refs), members)
    ELSE 0

\* q[n]; called only when self.nodeid(iv, quantifier=True) does not raise
QFlag(g, n) ==
    LET iv == IvOf(g.eps[n]) IN
    IF iv \in DOMAIN g.vars
    THEN IF nodeids_iv(g, iv, TRUE).val # <<>> THEN 1 ELSE 0
    ELSE IF is_quantifier(g.eps[n]) THEN 1 ELSE 0

\* the sort key with the incoming count not negated (the mutant of HeadKey)
HeadKeyInAscending(g, members, n) ==
    <<OutDeg(g, members, n), InDeg(g, members, n), 0 - QFlag(g, n), n>>

\* the sort key of labelset_heads, (out, -in_, -q, n), compared as tuples
HeadKey(g, members, n) ==
    <<OutDeg(g, members, n), 0 - InDeg(g, members, n), 0 - QFlag(g, n), n>>

RECURSIVE TupleLess(_, _)
TupleLess(a, b) ==
    IF a = <<>> THEN FALSE
    ELSE \/ Head(a) < Head(b)
         \/ Head(a) = Head(b) /\ TupleLess(Tail(a), Tail(b))

\* sorted(candidates, key=...)
RECURSIVE SortedBy(_, _, _)
SortedBy(g, members, cands) ==
    IF cands = {} THEN <<>>
    ELSE LET m == CHOOSE n \in cands : \A o \in cands \ {n} :
                     TupleLess(HeadKey(g, members, n), HeadKey(g, members, o))
         IN <<m>> \o SortedBy(g, members, cands \ {m})

\* Xmrs.labelset_heads(label)
labelset_heads(g, label) ==
    LET ls == labelset(g, label)
        members == RangeOf(ls.val)
        candidates == {n \in members : OutDeg(ls.g, members, n) <= 1}
    IN IF Cardinality(members) <= 1
       THEN [raised |-> NoneV, val |-> SetToSeq(members), g |-> ls.g]
       ELSE IF \E n \in candidates :
                  /\ IvOf(ls.g.eps[n]) \in DOMAIN ls.g.vars
                  /\ nodeids_iv(ls.g, IvOf(ls.g.eps[n]), TRUE).raised # NoneV
       THEN [raised |-> "KeyError", val |-> <<>>, g |-> ls.g]
       ELSE [raised |-> NoneV, val |-> SortedBy(ls.g, members, candidates), g |-> ls.g]

(***************************************************************************)
(* The state machine: one action per public operation.  ret records the    *)
(* last call: its name, its argument (for an add operation that raised:    *)
(* the key the error names), the exception type (None when it returned)    *)
(* and the value returned (for add_eps and add_hcons: the node ids, the    *)
(* high handles, of the records of the batch, in order).                   *)
(***************************************************************************)
Ret(op, arg, raised, val) == [op |-> op, arg |-> arg, raised |-> raised, val |-> val]

\* the graph fields after an operation that leaves the graph g
Becomes(g) ==
    /\ top' = g.top /\ index' = g.index /\ xarg' = g.xarg
    /\ nodeids' = g.nodeids /\ eps' = g.eps
    /\ hcons' = g.hcons /\ icons' = g.icons /\ vars' = g.vars

\* Xmrs(): the graph right after construction without arguments
Init ==
    /\ top = NoneV /\ index = NoneV /\ xarg = NoneV
    /\ nodeids = <<>> /\ eps = EmptyMap /\ hcons = EmptyMap /\ icons = EmptyMap
    /\ vars = EmptyGraph(NoneV, NoneV, NoneV).vars
    /\ ret = Ret("init", NoneV, NoneV, NoneV)

\* the non-empty sequences over U of the lengths in lens
Batches(U, lens) == UNION {[1..k -> U] : k \in lens}

EP(n, p, l, a) == [nodeid |-> n, pred |-> p, label |-> l, args |-> a]
HC(hi, lo) == [hi |-> hi, rel |-> "qeq", lo |-> lo]
IC(l, r) == [left |-> l, rel |-> "topic", right |-> r]

AddEps(U, lens) ==
    \E batch \in Batches(U, lens) :
        LET r == add_eps(self, batch) IN
        /\ Becomes(r.g)
        /\ ret' = Ret("add_eps", r.at, r.err, [k \in 1..Len(batch) |-> batch[k].nodeid])

AddHcons(U, lens) ==
    \E batch \in Batches(U, lens) :
        LET r == add_hcons(self, batch) IN
        /\ Becomes(r.g)
        /\ ret' = Ret("add_hcons", r.at, r.err, [k \in 1..Len(batch) |-> batch[k].hi])

\* the number of stored ICONS is capped at max (add_icons itself never refuses)
AddIcons(U, lens, max) ==
    \E batch \in Batches(U, lens) :
        LET r == add_icons(self, batch) IN
        /\ Len(batch) + Len(SetToSeq(UNION {{<<l, k>> : k \in 1..Len(icons[l])} : l \in DOMAIN icons})) <= max
        /\ Becomes(r.g)
        /\ ret' = Ret("add_icons", r.at, r.err, NoneV)

\* the node ids next(iter(g)) of _bfs may yield
Starts == IF nodeids = <<>> THEN {NoneV} ELSE RangeOf(nodeids)

IsConnected ==
    \E s \in Starts :
        LET r == is_connected(self, s) IN
        /\ Becomes(r.g)
        /\ ret' = Ret("is_connected", NoneV, r.raised, r.val)

Validate ==
    \E s \in Starts :
        LET r == validate(self, s) IN
        /\ Becomes(r.g)
        /\ ret' = Ret("validate", NoneV, r.raised, r.errors)

IsWellFormed ==
    \E s \in Starts :
        LET r == is_well_formed(self, s) IN
        /\ Becomes(r.g)
        /\ ret' = Ret("is_well_formed", NoneV, r.raised, r.val)

LabelsetHeads(L) ==
    \E label \in L :
        LET r == labelset_heads(self, label) IN
        /\ Becomes(r.g)
        /\ ret' = Ret("labelset_heads", label, r.raised, r.val)

IncomingArgs ==
    \E n \in DOMAIN eps :
        /\ ret' = Ret("incoming_args", n, NoneV, incoming_args(self, n))
        /\ UNCHANGED <<top, index, xarg, nodeids, eps, hcons, icons, vars>>

(***************************************************************************)
(* Spec: the add operations in any interleaving, with batches of one or    *)
(* two records (the second record is what makes a duplicate within a batch *)
(* and a batch that fails half way possible).                              *)
(***************************************************************************)
BatchLens == {1, 2}

ArgsAdd == {<<"h1", (IVARG_ROLE :> "x1") @@ ("ARG1" :> "h2")>>, <<NoneV, "ARG1" :> "c">>}

EpsAdd == {EP(n, "_p", s[1], s[2]) : n \in NodeIds, s \in ArgsAdd}

HconsAdd == {HC("h2", lo) : lo \in {"h1", "h3"}}

IconsAdd == {IC("x1", "x2")}

AddEpsAny == AddEps(EpsAdd, BatchLens)

AddHconsAny == AddHcons(HconsAdd, BatchLens)

AddIconsAny == AddIcons(IconsAdd, {1}, MaxIcons)

Next == AddEpsAny \/ AddHconsAny \/ AddIconsAny

Spec == Init /\ [][Next]_state

(***************************************************************************)
(* Claims about the add operations (checked under Spec).                   *)
(***************************************************************************)
\* a key of the batch keys ks that is stored already (in S) or repeats an
\* earlier key of the batch
HasDuplicate(ks, S) ==
    \E k \in 1..Len(ks) : ks[k] \in S \/ \E j \in 1..(k - 1) : ks[j] = ks[k]

NoRepeats(s) == \A i, j \in 1..Len(s) : i # j => s[i] # s[j]

\* C1: after any sequence of add_eps calls the node-id sequence has no
\* repeated id and its set of ids is the key set of the EP table; a batch
\* raises the duplicate-node error exactly when one of its records carries a
\* node id stored already or used earlier in the batch, and no call replaces
\* the EP stored under a node id.
C1_NodeIdsDistinct ==
    /\ [](NoRepeats(nodeids) /\ RangeOf(nodeids) = DOMAIN eps)
    /\ [][/\ \A n \in DOMAIN eps : n \in DOMAIN eps' /\ eps'[n] = eps[n]
          /\ ret'.op = "add_eps" =>
                /\ (ret'.raised # NoneV) = HasDuplicate(ret'.val, DOMAIN eps)
                /\ ret'.raised # NoneV => ret'.arg \in DOMAIN eps']_state

\* an add_eps call was rejected for a node id repeated within its batch, the
\* first record of the batch having been stored
C1_Witness ==
    /\ ret.op = "add_eps" /\ ret.raised # NoneV
    /\ Len(ret.val) = 2 /\ ret.val[1] = ret.val[2]
    /\ Len(nodeids) = 2 /\ nodeids[2] = ret.val[1]

\* C2: add_hcons raises the duplicate-constraint error exactly when a
\* constraint of the batch has a high handle that is stored already or used
\* earlier in the batch, no call replaces the constraint stored for a high
\* handle, and every stored constraint is stored under its own high handle.
C2_OneConstraintPerHi ==
    /\ [](\A hi \in DOMAIN hcons : hcons[hi].hi = hi)
    /\ [][/\ \A hi \in DOMAIN hcons : hi \in DOMAIN hcons' /\ hcons'[hi] = hcons[hi]
          /\ ret'.op = "add_hcons" =>
                /\ (ret'.raised # NoneV) = HasDuplicate(ret'.val, DOMAIN hcons)
                /\ ret'.raised # NoneV => ret'.arg \in DOMAIN hcons']_state

\* an add_hcons call was rejected for a high handle that holds a constraint
\* with another low value
C2_Witness ==
    /\ ret.op = "add_hcons" /\ ret.raised # NoneV
    /\ Len(ret.val) = 1
    /\ "h2" \in DOMAIN hcons /\ hcons["h2"].lo = "h3"
    /\ nodeids # <<>>

\* C3: forward structure and reverse-reference index agree.  Every EP is
\* listed under LBL in the references of its label (when set) and under r in
\* the references of every variable-shaped value it holds under role r;
\* every node id listed under a role of a variable is an EP holding that
\* variable under that role; the endpoints of every HCONS and ICONS are in
\* the Variable Table.
C3_IndexAgrees ==
    /\ \A n \in DOMAIN eps :
          /\ eps[n].label # NoneV =>
                /\ eps[n].label \in DOMAIN vars
                /\ LBL \in DOMAIN vars[eps[n].label].refs
                /\ n \in RangeOf(vars[eps[n].label].refs[LBL])
          /\ \A r \in DOMAIN eps[n].args :
                var_re(eps[n].args[r]) =>
                   /\ eps[n].args[r] \in DOMAIN vars
                   /\ r \in DOMAIN vars[eps[n].args[r]].refs
                   /\ n \in RangeOf(vars[eps[n].args[r]].refs[r])
    /\ \A v \in DOMAIN vars : \A r \in DOMAIN vars[v].refs :
          \A n \in RangeOf(vars[v].refs[r]) :
             /\ n \in DOMAIN eps
             /\ IF r = LBL THEN eps[n].label = v
                ELSE r \in DOMAIN eps[n].args /\ eps[n].args[r] = v
    /\ \A hi \in DOMAIN hcons : {hi, hcons[hi].lo} \subseteq DOMAIN vars
    /\ \A l \in DOMAIN icons : \A k \in 1..Len(icons[l]) :
          {icons[l][k].left, icons[l][k].right} \subseteq DOMAIN vars

\* a graph holding a labelled EP with a variable-shaped argument, an EP
\* without label with a constant argument, an HCONS and an ICONS
C3_Witness ==
    /\ \E n \in DOMAIN eps : eps[n].label # NoneV /\ "ARG0" \in DOMAIN eps[n].args
    /\ \E n \in DOMAIN eps : eps[n].label = NoneV /\ "ARG0" \notin DOMAIN eps[n].args
    /\ DOMAIN hcons # {} /\ DOMAIN icons # {}

\* C4: the qeq back-references recorded on the low variable of an HCONS are
\* the triples (node id, role, high handle) of the EPs that reference the
\* high handle, whatever the order of the add_eps and add_hcons calls, so
\* that incoming_args of an EP labelled with the low handle lists them.
C4_BackRefsComplete ==
    \A hi \in DOMAIN hcons : \A n \in DOMAIN eps : \A r \in DOMAIN eps[n].args :
        eps[n].args[r] = hi =>
           /\ <<n, r, hi>> \in RangeOf(vars[hcons[hi].lo].hcrefs)
           /\ \A m \in DOMAIN eps :
                 eps[m].label = hcons[hi].lo =>
                    /\ n \in DOMAIN incoming_args(self, m)
                    /\ r \in DOMAIN incoming_args(self, m)[n]
                    /\ incoming_args(self, m)[n][r] = hi

(***************************************************************************)
(* SpecWF: graphs of up to MaxNid + 1 EPs built record by record, in        *)
(* ascending order of node id, the HCONS before, between or after them,    *)
(* and the queries validate, is_well_formed and is_connected on them.      *)
(***************************************************************************)
NodeIdsWF == 1..(MaxNid + 1)

\* label, predicate and arguments of the EPs: a predication with intrinsic
\* variable x1; one with x2 and an argument on x1; a quantifier binding x2
\* with the hole h3 as restriction; a predication without label and
\* intrinsic variable whose argument is the label h1
ShapesWF ==
    {<<"h1", "_p", IVARG_ROLE :> "x1">>,
     <<"h2", "_p", (IVARG_ROLE :> "x2") @@ ("ARG1" :> "x1")>>,
     <<"h2", "_q", (IVARG_ROLE :> "x2") @@ (RSTR_ROLE :> "h3")>>,
     <<NoneV, "_p", "ARG1" :> "h1">>}

\* the node ids above those stored
FreshIds(ids) == {k \in ids : \A m \in DOMAIN eps : m < k}

EpsWF == {EP(n, s[2], s[1], s[3]) : n \in FreshIds(NodeIdsWF), s \in ShapesWF}

HconsWF == {HC("h3", lo) : lo \in {"h1", "h4"}}

AddEpsWF == AddEps(EpsWF, {1})

AddHconsWF == AddHcons(HconsWF, {1})

NextWF == AddEpsWF \/ AddHconsWF \/ IsConnected \/ Validate \/ IsWellFormed

SpecWF == Init /\ [][NextWF]_state

(***************************************************************************)
(* Claims about validate, is_well_formed and is_connected (under SpecWF).  *)
(***************************************************************************)
\* the EPs whose intrinsic variable is v, and those whose label is l
IvHolders(v) == {n \in DOMAIN eps : IvOf(eps[n]) = v}
LabelHolders(l) == {n \in DOMAIN eps : eps[n].label = l /\ l # NoneV}

\* the EPs an argument value v leads to
Targets(v) ==
    IF v \notin DOMAIN vars THEN {}
    ELSE IF IvHolders(v) # {} THEN IvHolders(v)
    ELSE IF v \in DOMAIN hcons THEN LabelHolders(hcons[v].lo)
    ELSE LabelHolders(v)

Linked(a, b) == \E r \in DOMAIN eps[a].args : b \in Targets(eps[a].args[r])

Adjacent(a, b) ==
    /\ a # b
    /\ \/ eps[a].label # NoneV /\ eps[a].label = eps[b].label
       \/ Linked(a, b) \/ Linked(b, a)

\* the node ids joined to those of S by a chain of adjacent EPs
RECURSIVE Closure(_)
Closure(S) ==
    LET T == S \cup {b \in DOMAIN eps : \E a \in S : Adjacent(a, b)} IN
    IF T = S THEN S ELSE Closure(T)

Connected == \A a \in DOMAIN eps : Closure({a}) = DOMAIN eps

WellFormed ==
    /\ \A n \in DOMAIN eps : eps[n].label # NoneV /\ IvOf(eps[n]) # NoneV
    /\ \A a, b \in DOMAIN eps :
          a # b /\ is_quantifier(eps[a]) = is_quantifier(eps[b])
             => IvOf(eps[a]) # IvOf(eps[b])
    /\ \A hi \in DOMAIN hcons : LabelHolders(hcons[hi].lo) # {}
    /\ Connected

C6_AllProblemsReported ==
    ret.op = "validate" =>
       /\ \A n \in DOMAIN eps :
             eps[n].label = NoneV =>
                /\ ret.raised = "XmrsError"
                /\ <<"EP is missing a label", n>> \in RangeOf(ret.val)
       /\ \A hi \in DOMAIN hcons :
             LabelHolders(hcons[hi].lo) = {} =>
                /\ ret.raised = "XmrsError"
                /\ <<"Lo variable of HCONS is not the label of any EP", hi>>
                      \in RangeOf(ret.val)

\* C7: is_well_formed() returns a boolean and never raises, on the graph
\* without EPs too, and the boolean says whether validate() on the same
\* graph succeeds.
C7_WellFormedNeverRaises ==
    /\ [](ret.op = "is_well_formed" => ret.raised = NoneV /\ ret.val \in BOOLEAN)
    /\ [][/\ ret.op = "validate" /\ ret'.op = "is_well_formed"
                => ret'.val = (ret.raised = NoneV)
          /\ ret.op = "is_well_formed" /\ ret'.op = "validate"
                => ret.val = (ret'.raised = NoneV)]_state

\* is_well_formed() returned False on a graph without EPs that holds an HCONS
C7_Witness ==
    /\ ret.op = "is_well_formed" /\ ret.raised = NoneV /\ ret.val = FALSE
    /\ nodeids = <<>> /\ DOMAIN hcons # {}

\* C8: on a graph with at least one EP, is_connected() returns True exactly
\* when every node id is joined to every other by a chain of EPs that share
\* a label or are linked by an argument whose value is a known variable: to
\* the EPs with that intrinsic variable, else (a qeq high handle) to the
\* label set of the low handle, else to the label set of the value.
C8_ConnectedIffReachable ==
    ret.op = "is_connected" /\ nodeids # <<>> =>
       ret.raised = NoneV /\ ret.val = Connected

\* is_connected() returned True on two EPs joined by nothing but a qeq
C8_Witness ==
    /\ ret.op = "is_connected" /\ ret.raised = NoneV /\ ret.val = TRUE
    /\ Len(nodeids) = 2 /\ "h3" \in DOMAIN hcons
    /\ \A a, b \in DOMAIN eps :
          a # b => /\ eps[a].label # eps[b].label
                   /\ IvOf(eps[a]) # IvOf(eps[b])
                   /\ "ARG1" \notin DOMAIN eps[a].args

(***************************************************************************)
(* SpecHeads: up to MaxNid + 1 EPs sharing the label h1, added record by   *)
(* record under unused node ids in any order, and labelset_heads called    *)
(* with h1 and with a label that is not in the graph (None).               *)
(***************************************************************************)
\* predicate and arguments of the EPs of the label set: without arguments;
\* with intrinsic variable x1; with intrinsic variable x2 and an argument
\* on x1; with an argument on x1 only; a quantifier binding x1; a
\* quantifier without arguments
ShapesHeads ==
    {<<"_p", EmptyMap>>,
     <<"_p", IVARG_ROLE :> "x1">>,
     <<"_p", (IVARG_ROLE :> "x2") @@ ("ARG1" :> "x1")>>,
     <<"_p", "ARG1" :> "x1">>,
     <<"_q", IVARG_ROLE :> "x1">>,
     <<"_q", EmptyMap>>}

EpsHeads ==
    {EP(n, s[1], "h1", s[2]) : n \in NodeIdsWF \ DOMAIN eps, s \in ShapesHeads}

AddEpsHeads == AddEps(EpsHeads, {1})

LabelsetHeadsAny == LabelsetHeads({"h1", NoneV})

NextHeads == AddEpsHeads \/ LabelsetHeadsAny

SpecHeads == Init /\ [][NextHeads]_state

(***************************************************************************)
(* Claims about labelset_heads (under SpecHeads).                          *)
(***************************************************************************)
\* the intrinsic variables of the EPs in S
IvsOf(S) == {IvOf(eps[m]) : m \in S} \ {NoneV}

\* the arguments of n, ARG0 included, whose value is the intrinsic variable
\* of an EP of the label set S, its own included
OutAll(S, n) == {r \in DOMAIN eps[n].args : eps[n].args[r] \in IvsOf(S)}

\* the arguments of n, ARG0 excluded, whose value is the intrinsic variable
\* of another EP of the label set S
OutOthers(S, n) ==
    {r \in DOMAIN eps[n].args \ {IVARG_ROLE} : eps[n].args[r] \in IvsOf(S \ {n})}

\* the references from the EPs of T to the intrinsic variable of n
RefsFrom(T, n) ==
    {<<m, r>> \in T \X RangeOf(RoleOrder) :
        r \in DOMAIN eps[m].args /\ eps[m].args[r] = IvOf(eps[n])}

\* the call would raise: an EP it ranks has an ARG0 value (None when it has
\* none) that is a Variable Table entry without ARG0 references
HeadsKeyError(S) ==
    \E n \in S :
       /\ Cardinality(OutAll(S, n)) <= 1
       /\ IvOf(eps[n]) \in DOMAIN vars
       /\ IVARG_ROLE \notin DOMAIN vars[IvOf(eps[n])].refs

\* C9 as claimed: labelset_heads returns exactly the EPs of the label set
\* with at most one argument, ARG0 not counted, on the intrinsic variable of
\* another EP of the label set.
C9_HeadsAsClaimed ==
    ret.op = "labelset_heads" /\ Cardinality(LabelHolders(ret.arg)) >= 2 =>
       /\ ret.raised = NoneV
       /\ NoRepeats(ret.val)
       /\ RangeOf(ret.val) =
             {n \in LabelHolders(ret.arg) :
                 Cardinality(OutOthers(LabelHolders(ret.arg), n)) <= 1}

\* C9 (amended): for a label shared by two or more EPs labelset_heads, when
\* it returns, returns each exactly once exactly the EPs of the label set
\* with at most one argument, ARG0 included, whose value is the intrinsic
\* variable of an EP of the label set, its own included; it raises KeyError
\* instead exactly when the ARG0 value of such an EP (None when it has none)
\* is a Variable Table entry without ARG0 references.
C9_HeadsCountArg0 ==
    ret.op = "labelset_heads" /\ Cardinality(LabelHolders(ret.arg)) >= 2 =>
       /\ (ret.raised = "KeyError") = HeadsKeyError(LabelHolders(ret.arg))
       /\ ret.raised \in {NoneV, "KeyError"}
       /\ ret.raised = NoneV =>
             /\ NoRepeats(ret.val)
             /\ RangeOf(ret.val) =
                   {n \in LabelHolders(ret.arg) :
                       Cardinality(OutAll(LabelHolders(ret.arg), n)) <= 1}

\* labelset_heads returned for a label set of three EPs and left out an EP
\* whose only argument besides ARG0 is on another EP's intrinsic variable
C9_Witness ==
    /\ ret.op = "labelset_heads" /\ ret.raised = NoneV
    /\ Cardinality(LabelHolders(ret.arg)) = 3
    /\ Len(ret.val) = 2
    /\ \E n \in LabelHolders(ret.arg) \ RangeOf(ret.val) :
          Cardinality(OutOthers(LabelHolders(ret.arg), n)) = 1

\* quantifier or quantified, as claimed and as computed
IsQOrQuantified(n) ==
    \/ is_quantifier(eps[n])
    \/ \E m \in DOMAIN eps : is_quantifier(eps[m]) /\ IvOf(eps[m]) = IvOf(eps[n])
                             /\ IvOf(eps[n]) # NoneV

QComputed(n) ==
    IF IvOf(eps[n]) \in DOMAIN vars
    THEN \E m \in DOMAIN eps : is_quantifier(eps[m]) /\ IvOf(eps[m]) = IvOf(eps[n])
    ELSE is_quantifier(eps[n])

KeyClaimed(S, n) ==
    <<Cardinality(OutOthers(S, n)), 0 - Cardinality(RefsFrom(S \ {n}, n)),
      IF IsQOrQuantified(n) THEN 0 ELSE 1, n>>

KeyComputed(S, n) ==
    <<Cardinality(OutAll(S, n)),
      IF IvOf(eps[n]) \in DOMAIN vars THEN 0 - Cardinality(RefsFrom(S, n)) ELSE 0,
      IF QComputed(n) THEN 0 ELSE 1, n>>

\* C10 as claimed: the returned sequence is ordered by fewer arguments (ARG0
\* excluded) on the intrinsic variable of another same-label EP, then more
\* incoming references from other same-label EPs, then quantifier or
\* quantified first, then ascending node id.
C10_OrderAsClaimed ==
    ret.op = "labelset_heads" /\ ret.raised = NoneV
       /\ Cardinality(LabelHolders(ret.arg)) >= 2 =>
       \A i, j \in 1..Len(ret.val) :
          i < j => TupleLess(KeyClaimed(LabelHolders(ret.arg), ret.val[i]),
                             KeyClaimed(LabelHolders(ret.arg), ret.val[j]))

\* C10 (amended): the sequence labelset_heads returns for a label set of two
\* or more EPs is ordered by fewer arguments, ARG0 included, whose value is
\* the intrinsic variable of a same-label EP (its own included); then more
\* references, its own ARG0 included, from same-label EPs to its intrinsic
\* variable; then quantifier or quantified first; then ascending node id.
\* In particular a returned EP with no outgoing same-label argument and one
\* incoming same-label argument comes before every returned EP with one
\* outgoing same-label argument.
C10_OrderCountsArg0 ==
    ret.op = "labelset_heads" /\ ret.raised = NoneV
       /\ Cardinality(LabelHolders(ret.arg)) >= 2 =>
       \A i, j \in 1..Len(ret.val) :
          /\ i < j => TupleLess(KeyComputed(LabelHolders(ret.arg), ret.val[i]),
                                KeyComputed(LabelHolders(ret.arg), ret.val[j]))
          /\ (/\ OutOthers(LabelHolders(ret.arg), ret.val[i]) = {}
              /\ Cardinality(RefsFrom(LabelHolders(ret.arg) \ {ret.val[i]}, ret.val[i])) = 1
              /\ Cardinality(OutOthers(LabelHolders(ret.arg), ret.val[j])) = 1) => i < j

\* labelset_heads ranked an EP without ARG0 and without arguments before an
\* EP of lower node id that has an incoming same-label argument, and an EP
\* with an outgoing same-label argument last
C10_Witness ==
    /\ ret.op = "labelset_heads" /\ ret.raised = NoneV /\ Len(ret.val) = 3
    /\ eps[ret.val[1]].args = EmptyMap
    /\ ret.val[2] < ret.val[1]
    /\ RefsFrom({ret.val[3]}, ret.val[2]) # {}
    /\ Cardinality(OutOthers(LabelHolders(ret.arg), ret.val[3])) = 1

(***************************************************************************)
(* Xmrs.__init__ with arguments: the Variable Table entries of top, index  *)
(* and xarg, the properties of vars, then add_eps, add_hcons, add_icons.   *)
(* raised is the exception that leaves the constructor, if any (and then   *)
(* there is no graph: g is the empty graph).                               *)
(***************************************************************************)
\* the loop "_vars[var]['props'] = props" over the keys ks of the mapping vmap
RECURSIVE SetProps(_, _, _)
SetProps(vs, vmap, ks) ==
    IF ks = <<>> THEN vs
    ELSE SetProps([Ensure(vs, Head(ks)) EXCEPT ![Head(ks)].props = vmap[Head(ks)]],
                  vmap, Tail(ks))

XmrsInit(t, i, x, epsL, hconsL, iconsL, vmap) ==
    LET g0 == EmptyGraph(t, i, x)
        g1 == [g0 EXCEPT !.vars = SetProps(g0.vars, vmap, SetToSeq(DOMAIN vmap))]
        r1 == add_eps(g1, epsL)
        r2 == add_hcons(r1.g, hconsL)
        r3 == add_icons(r2.g, iconsL)
    IN IF r1.err # NoneV \/ r2.err # NoneV
       THEN [raised |-> "XmrsError", g |-> EmptyGraph(NoneV, NoneV, NoneV)]
       ELSE [raised |-> NoneV, g |-> r3.g]

(***************************************************************************)
(* Dmrs: nodes and links.  A node is [nodeid, pred, cvarsort, carg], a     *)
(* link [start, end, rargname, post].  VarGenerator is a counter vid and   *)
(* the store of the names it has made (name -> properties).                *)
(***************************************************************************)
LTOP_NODEID == 0
HANDLESORT == "h"
EQ_POST == "EQ"
HEQ_POST == "HEQ"
H_POST == "H"
NIL_POST == "NIL"
NEQ_POST == "NEQ"

NODE(n, p, s, c) == [nodeid |-> n, pred |-> p, cvarsort |-> s, carg |-> c]
LINK(s, e, r, p) == [start |-> s, end |-> e, rargname |-> r, post |-> p]

\* VarGenerator(): the first serial number is 1
VarGenerator == [vid |-> 1, store |-> EmptyMap]

\* VarGenerator.new(sort, properties): the name and the generator afterwards
VgenNew(vgen, sort, props) ==
    LET name == sort \o ToString(vgen.vid) IN
    [name |-> name,
     vgen |-> [vid |-> vgen.vid + 1, store |-> (name :> props) @@ vgen.store]]

\* str.upper() on the role names of the model
Upper(s) == IF s = "nil" THEN "NIL" ELSE IF s = "rstr" THEN RSTR_ROLE ELSE s

\* eq_edges[a].add(b)
AddEdge(edges, a, b) ==
    IF a \in DOMAIN edges THEN [edges EXCEPT ![a] = @ \cup {b}]
    ELSE edges @@ (a :> {b})

\* the first loop of _make_labels: acc is [vid, nids, edges]
RECURSIVE MakeLabelsLinks(_, _)
MakeLabelsLinks(links, acc) ==
    IF links = <<>> THEN acc
    ELSE LET l == Head(links)
             a1 == IF l.start = LTOP_NODEID
                   THEN [acc EXCEPT !.vid = 0, !.nids = <<LTOP_NODEID>> \o @]
                   ELSE acc
             a2 == IF l.post = EQ_POST
                   THEN [a1 EXCEPT !.edges = AddEdge(AddEdge(@, l.start, l.end),
                                                     l.end, l.start)]
                   ELSE a1
         IN MakeLabelsLinks(Tail(links), a2)

\* one label for every node id, none (the mutant of MakeLabelsAssign): every
\* node id of nids receives a label of its own, whatever the equality links
RECURSIVE MakeLabelsAssignAlone(_, _, _, _, _)
MakeLabelsAssignAlone(nids, edges, seen, labels, vgen) ==
    IF nids = <<>> THEN [labels |-> labels, vgen |-> vgen]
    ELSE LET nid == Head(nids) IN
         IF nid \in seen
         THEN MakeLabelsAssignAlone(Tail(nids), edges, seen, labels, vgen)
         ELSE LET n == VgenNew(vgen, HANDLESORT, <<>>)
              IN MakeLabelsAssignAlone(Tail(nids), edges, seen \cup {nid},
                                       (nid :> n.name) @@ labels, n.vgen)

\* the second loop of _make_labels: one new handle per node id not seen yet,
\* given to every node id _bfs reaches from it
RECURSIVE MakeLabelsAssign(_, _, _, _, _)
MakeLabelsAssign(nids, edges, seen, labels, vgen) ==
    IF nids = <<>> THEN [labels |-> labels, vgen |-> vgen]
    ELSE LET nid == Head(nids) IN
         IF nid \in seen
         THEN MakeLabelsAssign(Tail(nids), edges, seen, labels, vgen)
         ELSE LET n == VgenNew(vgen, HANDLESORT, <<>>)
                  comp == bfs(edges, nid)
              IN MakeLabelsAssign(Tail(nids), edges, seen \cup comp,
                                  [c \in comp |-> n.name] @@ labels, n.vgen)

\* _make_labels(nodes, links, vgen)
make_labels(nodes, links, vgen) ==
    LET a == MakeLabelsLinks(links,
                 [vid |-> vgen.vid,
                  nids |-> [k \in 1..Len(nodes) |-> nodes[k].nodeid],
                  edges |-> EmptyMap])
    IN MakeLabelsAssign(a.nids, a.edges, {}, EmptyMap, [vgen EXCEPT !.vid = a.vid])

\* Node.is_quantifier
node_is_quantifier(node) == node.pred \in QuantifierPreds

\* _make_ivs(nodes, vgen)
RECURSIVE make_ivs(_, _, _)
make_ivs(nodes, ivs, vgen) ==
    IF nodes = <<>> THEN [ivs |-> ivs, vgen |-> vgen]
    ELSE LET node == Head(nodes) IN
         IF node_is_quantifier(node) THEN make_ivs(Tail(nodes), ivs, vgen)
         ELSE LET n == VgenNew(vgen, node.cvarsort, <<>>)
              IN make_ivs(Tail(nodes), (node.nodeid :> n.name) @@ ivs, n.vgen)

\* args[nid][role] = val
SetArg(args, nid, role, val) == [args EXCEPT ![nid] = (role :> val) @@ @]

\* a link that starts at LTOP_NODEID, without the qeq (the mutant of TopLink)
TopLinkNoQeq(acc, l, labels) == [acc EXCEPT !.top = labels[LTOP_NODEID]]

\* a link that starts at LTOP_NODEID, with the qeq whatever the tag (another
\* mutant of TopLink)
TopLinkAlwaysQeq(acc, l, labels) ==
    LET a1 == [acc EXCEPT !.top = labels[LTOP_NODEID]] IN
    IF l.end \notin DOMAIN labels THEN [a1 EXCEPT !.raised = "KeyError"]
    ELSE [a1 EXCEPT !.hcons = Append(@, HC(labels[LTOP_NODEID], labels[l.end]))]

\* a link that starts at LTOP_NODEID: top, and a qeq for H_POST / NIL_POST
TopLink(acc, l, labels) ==
    LET a1 == [acc EXCEPT !.top = labels[LTOP_NODEID]] IN
    IF l.post = H_POST \/ l.post = NIL_POST
    THEN IF l.end \notin DOMAIN labels THEN [a1 EXCEPT !.raised = "KeyError"]
         ELSE [a1 EXCEPT !.hcons = Append(@, HC(labels[LTOP_NODEID], labels[l.end]))]
    ELSE a1

\* a H_POST link that reuses the label of the end node as the hole (the
\* mutant of HandleLink)
HandleLinkNoHole(acc, l, labels) ==
    IF l.end \notin DOMAIN labels THEN [acc EXCEPT !.raised = "KeyError"]
    ELSE [acc EXCEPT !.args = SetArg(@, l.start, l.rargname, labels[l.end])]

\* a H_POST link: a new hole, its qeq, the argument, and for RSTR the
\* intrinsic variable of the end node
HandleLink(acc, l, labels) ==
    LET n == VgenNew(acc.vgen, HANDLESORT, <<>>)
        a1 == [acc EXCEPT !.vgen = n.vgen]
    IN IF l.end \notin DOMAIN labels THEN [a1 EXCEPT !.raised = "KeyError"]
       ELSE LET a2 == [a1 EXCEPT !.hcons = Append(@, HC(n.name, labels[l.end])),
                                 !.args = SetArg(@, l.start, l.rargname, n.name)]
            IN IF Upper(l.rargname) = RSTR_ROLE
               THEN IF l.end \notin DOMAIN a2.ivs THEN [a2 EXCEPT !.raised = "KeyError"]
                    ELSE [a2 EXCEPT !.ivs = (l.start :> a2.ivs[l.end]) @@ @,
                                    !.args = SetArg(@, l.start, IVARG_ROLE, a2.ivs[l.end])]
               ELSE a2

\* a HEQ_POST link: the label of the end node is the argument
HeqLink(acc, l, labels) ==
    IF l.end \notin DOMAIN labels THEN [acc EXCEPT !.raised = "KeyError"]
    ELSE [acc EXCEPT !.args = SetArg(@, l.start, l.rargname, labels[l.end])]

\* any other link with the intrinsic variable of the start node as the
\* argument (the mutant of VarLink)
VarLinkOwnIv(acc, l, labels) ==
    IF l.start \notin DOMAIN acc.ivs THEN [acc EXCEPT !.raised = "KeyError"]
    ELSE [acc EXCEPT !.args = SetArg(@, l.start, l.rargname, acc.ivs[l.start])]

\* any other link: the intrinsic variable of the end node is the argument
VarLink(acc, l, labels) ==
    IF l.end \notin DOMAIN acc.ivs THEN [acc EXCEPT !.raised = "KeyError"]
    ELSE [acc EXCEPT !.args = SetArg(@, l.start, l.rargname, acc.ivs[l.end])]

\* "not l.rargname or l.rargname.upper() == 'NIL'"
BareLink(l) == l.rargname = NoneV \/ l.rargname = "" \/ Upper(l.rargname) = "NIL"

\* the body of the loop over the links
LinkStep(acc, l, labels) ==
    LET a1 == IF l.start \in DOMAIN acc.args THEN acc
              ELSE [acc EXCEPT !.args = @ @@ (l.start :> EmptyMap)]
    IN IF l.start = LTOP_NODEID THEN TopLink(a1, l, labels)
       ELSE IF BareLink(l) THEN a1
       ELSE IF l.post = H_POST THEN HandleLink(a1, l, labels)
       ELSE IF l.post = HEQ_POST THEN HeqLink(a1, l, labels)
       ELSE VarLink(a1, l, labels)

\* the loop over the links; an exception ends it
RECURSIVE DmrsLinks(_, _, _)
DmrsLinks(links, acc, labels) ==
    IF links = <<>> \/ acc.raised # NoneV THEN acc
    ELSE DmrsLinks(Tail(links), LinkStep(acc, Head(links), labels), labels)

\* the loop over the nodes that assembles the EPs; acc is [raised, args, eps]
RECURSIVE DmrsEps(_, _, _)
DmrsEps(nodes, acc, labels) ==
    IF nodes = <<>> \/ acc.raised # NoneV THEN acc
    ELSE LET node == Head(nodes)
             nid == node.nodeid
         IN IF nid \notin DOMAIN acc.args THEN [acc EXCEPT !.raised = "KeyError"]
            ELSE LET args1 == IF node.carg # NoneV
                              THEN SetArg(acc.args, nid, CONSTARG_ROLE, node.carg)
                              ELSE acc.args
                 IN DmrsEps(Tail(nodes),
                            [acc EXCEPT !.args = args1,
                                        !.eps = Append(@, EP(nid, node.pred, labels[nid], args1[nid]))],
                            labels)

\* Dmrs(nodes, links): the graph, or the exception (and then no graph: g is
\* the empty graph); labels and ivs are the tables of the constructor when
\* it ends
Dmrs(nodes, links) ==
    LET ml == make_labels(nodes, links, VarGenerator)
        mi == make_ivs(nodes, EmptyMap, ml.vgen)
        a0 == [raised |-> NoneV, top |-> NoneV, hcons |-> <<>>,
               args |-> [nid \in DOMAIN mi.ivs |-> (IVARG_ROLE :> mi.ivs[nid])],
               ivs |-> mi.ivs, vgen |-> mi.vgen]
        a == DmrsLinks(links, a0, ml.labels)
        e == DmrsEps(nodes, [raised |-> a.raised, args |-> a.args, eps |-> <<>>], ml.labels)
        x == XmrsInit(a.top, NoneV, NoneV, e.eps, a.hcons, <<>>, a.vgen.store)
    IN IF e.raised # NoneV
       THEN [raised |-> e.raised, g |-> EmptyGraph(NoneV, NoneV, NoneV),
             labels |-> ml.labels, ivs |-> a.ivs]
       ELSE IF x.raised # NoneV
       THEN [raised |-> x.raised, g |-> EmptyGraph(NoneV, NoneV, NoneV),
             labels |-> ml.labels, ivs |-> a.ivs]
       ELSE [raised |-> NoneV, g |-> x.g, labels |-> ml.labels, ivs |-> a.ivs]

(***************************************************************************)
(* SpecDmrs: one call of the Dmrs constructor.  The inputs are one or two  *)
(* nodes (node 1 of sort e, node 2 of sort x, each a quantifier or not,    *)
(* node 2 with or without a constant payload) and up to two links.  The    *)
(* link lists are those of a DMRS: a node has at most one link under a     *)
(* role, and a restriction link has the tag H and starts at a quantifier.  *)
(* Links may end at a node id that has no node.                            *)
(***************************************************************************)
DmrsNodeIds == {1, 2}
DmrsRoles == {"", "NIL", "nil", "ARG1", RSTR_ROLE}
DmrsPosts == {EQ_POST, HEQ_POST, H_POST, NIL_POST, NEQ_POST}
LinkLens == {0, 1, 2}

NodesDmrs ==
    {<<NODE(1, p, "e", NoneV)>> : p \in {"_p", "_q"}}
    \cup {<<NODE(1, p[1], "e", NoneV), NODE(2, p[2], "x", c)>> :
             p \in {"_p", "_q"} \X {"_p", "_q"}, c \in {NoneV, "c"}}

LinkUniverse ==
    {LINK(LTOP_NODEID, e, NoneV, p) : e \in DmrsNodeIds, p \in DmrsPosts}
    \cup {LINK(s, e, r, p) : s \in DmrsNodeIds, e \in DmrsNodeIds,
                              r \in DmrsRoles, p \in DmrsPosts}

\* the node of the list with this node id is a quantifier
QuantifierNode(nodes, nid) ==
    \E k \in 1..Len(nodes) : nodes[k].nodeid = nid /\ node_is_quantifier(nodes[k])

\* the link makes an argument of its start node
ArgumentLink(l) == l.start # LTOP_NODEID /\ ~BareLink(l)

ProperLinks(nodes, links) ==
    /\ \A i, j \in 1..Len(links) :
          i < j /\ ArgumentLink(links[i]) /\ ArgumentLink(links[j])
             => ~(links[i].start = links[j].start
                  /\ links[i].rargname = links[j].rargname)
    /\ \A i \in 1..Len(links) :
          ArgumentLink(links[i]) /\ Upper(links[i].rargname) = RSTR_ROLE
             => links[i].post = H_POST /\ QuantifierNode(nodes, links[i].start)

InputsDmrs ==
    {in \in NodesDmrs \X UNION {[1..k -> LinkUniverse] : k \in LinkLens} :
        ProperLinks(in[1], in[2])}

DmrsNewAny ==
    /\ ret.op = "init"
    /\ \E in \in InputsDmrs :
          LET r == Dmrs(in[1], in[2]) IN
          /\ Becomes(r.g)
          /\ ret' = Ret("Dmrs", [nodes |-> in[1], links |-> in[2]], r.raised,
                        [labels |-> r.labels, ivs |-> r.ivs])

NextDmrs == DmrsNewAny

SpecDmrs == Init /\ [][NextDmrs]_state

(***************************************************************************)
(* Claims about the Dmrs constructor (under SpecDmrs).                     *)
(***************************************************************************)
InNodes == ret.arg.nodes
InLinks == ret.arg.links
InNodeIds == {InNodes[k].nodeid : k \in 1..Len(InNodes)}
Built == ret.op = "Dmrs" /\ ret.raised = NoneV

\* a link tagged equality joins a and b, in either direction
EqLinked(a, b) ==
    \E k \in 1..Len(InLinks) :
        /\ InLinks[k].post = EQ_POST
        /\ {InLinks[k].start, InLinks[k].end} = {a, b}

\* the ids joined to those of S by a chain of links tagged equality
RECURSIVE EqClosure(_)
EqClosure(S) ==
    LET ids == InNodeIds \cup {LTOP_NODEID}
        T == S \cup {b \in ids : \E a \in S : EqLinked(a, b)}
    IN IF T = S THEN S ELSE EqClosure(T)

\* C11: two nodes receive the same label exactly when a chain of links
\* tagged equality joins them, and the EPs of the built graph carry the
\* labels so received.
C11_LabelsAreEqComponents ==
    ret.op = "Dmrs" =>
       /\ \A a, b \in InNodeIds :
             (ret.val.labels[a] = ret.val.labels[b]) <=> (b \in EqClosure({a}))
       /\ ret.raised = NoneV =>
             \A a \in InNodeIds : eps[a].label = ret.val.labels[a]

\* a graph was built from two nodes that share a label without a link
\* between them: each is joined to the top id by a link tagged equality
C11_Witness ==
    /\ Built /\ Len(nodeids) = 2
    /\ eps[1].label = eps[2].label
    /\ \A k \in 1..Len(InLinks) : InLinks[k].start = LTOP_NODEID

\* the links that start at the top id
TopLinks == {k \in 1..Len(InLinks) : InLinks[k].start = LTOP_NODEID}

\* the only link goes from the top id to a node, with the tag H
OnlyTopHandleLink ==
    /\ Len(InLinks) = 1 /\ TopLinks = {1}
    /\ InLinks[1].post = H_POST /\ InLinks[1].end \in InNodeIds

\* C12 as claimed: for a DMRS whose only link goes from the top id to a node
\* N with the tag H, the top of the built graph equals the label of N.
C12_TopIsLabelOfEnd ==
    Built /\ OnlyTopHandleLink => top = eps[InLinks[1].end].label

\* C12: for a DMRS whose only link goes from the top id to a node N with the
\* tag H, the top of the built graph is a handle other than the label of N,
\* and the only HCONS of the graph is a qeq from top to the label of N.
C12_TopQeqLabelOfEnd ==
    Built /\ OnlyTopHandleLink =>
       /\ top \in Handles /\ top # eps[InLinks[1].end].label
       /\ DOMAIN hcons = {top}
       /\ hcons[top] = HC(top, eps[InLinks[1].end].label)

\* a graph of two EPs was built from a DMRS whose only link is a top link
\* tagged H to node 2
C12_Witness ==
    /\ Built /\ OnlyTopHandleLink /\ Len(nodeids) = 2
    /\ InLinks[1].end = 2 /\ top # NoneV

\* the qeq HCONS from handle hi to handle lo that the graph holds
QeqFrom(hi, lo) ==
    {h \in DOMAIN hcons : hcons[h].hi = hi /\ hcons[h].rel = "qeq" /\ hcons[h].lo = lo}

\* C13: for a DMRS with exactly one link starting at the top id, the top of
\* the built graph is the label synthesized for the top id, and the graph
\* holds a qeq HCONS from top to the label of the end node exactly when the
\* link is tagged H or NIL (then one, and none for EQ, HEQ and NEQ).
C13_TopLinkQeq ==
    Built /\ Cardinality(TopLinks) = 1 =>
       LET l == InLinks[CHOOSE k \in TopLinks : TRUE] IN
       /\ top = ret.val.labels[LTOP_NODEID]
       /\ l.end \in InNodeIds =>
             /\ l.post \in {H_POST, NIL_POST}
                   => Cardinality(QeqFrom(top, eps[l.end].label)) = 1
             /\ l.post \notin {H_POST, NIL_POST}
                   => QeqFrom(top, eps[l.end].label) = {}

\* a graph was built from a top link tagged NIL and a link tagged H of a
\* node, so that it holds the qeq of top and the qeq of a hole
C13_Witness ==
    /\ Built /\ Cardinality(TopLinks) = 1 /\ Len(InLinks) = 2
    /\ \E k \in TopLinks : InLinks[k].post = NIL_POST
    /\ Cardinality(DOMAIN hcons) = 2

\* the role of a link is not empty and is not NIL (in either letter case)
NamedRole(r) == r \notin {NoneV, "", "NIL", "nil"}

\* the roles of the links that start at node n and have a named role
LinkRoles(n) ==
    {InLinks[k].rargname : k \in {j \in 1..Len(InLinks) :
        InLinks[j].start = n /\ NamedRole(InLinks[j].rargname)}}

HandleLinksWith(Named(_)) ==
    {k \in 1..Len(InLinks) :
        /\ InLinks[k].start # LTOP_NODEID
        /\ InLinks[k].start \in InNodeIds /\ InLinks[k].end \in InNodeIds
        /\ InLinks[k].post = H_POST /\ Named(InLinks[k].rargname)}

\* link k has made a hole of its own: the argument of the start node under
\* the role of the link is a handle that is no label, no intrinsic variable
\* and not the argument made by another link of ks, the graph holds exactly
\* one qeq from it, to the label of the end node, and for the role RSTR the
\* start node has the intrinsic variable of the end node
HoleMade(k, ks) ==
    LET l == InLinks[k] IN
    /\ l.end \in DOMAIN eps
    /\ l.rargname \in DOMAIN eps[l.start].args
    /\ LET hole == eps[l.start].args[l.rargname] IN
       /\ hole \in Handles
       /\ \A n \in DOMAIN eps : hole # eps[n].label /\ hole # IvOf(eps[n])
       /\ \A n \in DOMAIN ret.val.labels : hole # ret.val.labels[n]
       /\ \A j \in ks \ {k} :
             InLinks[j].rargname \in DOMAIN eps[InLinks[j].start].args
                => eps[InLinks[j].start].args[InLinks[j].rargname] # hole
       /\ {h \in DOMAIN hcons : hcons[h].hi = hole} = {hole}
       /\ hcons[hole] = HC(hole, eps[l.end].label)
    /\ l.rargname = RSTR_ROLE =>
          /\ IvOf(eps[l.start]) # NoneV
          /\ IvOf(eps[l.start]) = IvOf(eps[l.end])

NonEmptyRole(r) == r \notin {NoneV, ""}

\* C15 as claimed: every link tagged H that does not start at the top id and
\* has a non-empty role makes a hole of its own (HoleMade).
C15_HandleLinksAsClaimed ==
    Built => \A k \in HandleLinksWith(NonEmptyRole) :
                HoleMade(k, HandleLinksWith(NonEmptyRole))

\* C15: every link tagged H that does not start at the top id and has a role
\* that is not empty and not NIL makes a hole of its own: the argument of
\* the start node under that role is a new handle, different from every
\* label, every intrinsic variable and every other hole, with exactly one
\* qeq HCONS from it, to the label of the end node; for the role RSTR the
\* start node also has the intrinsic variable of the end node under ARG0.
C15_HandleLinksMakeHoles ==
    Built => \A k \in HandleLinksWith(NamedRole) :
                HoleMade(k, HandleLinksWith(NamedRole))

\* a graph was built from a link RSTR/H of a quantifier and a link ARG1/H,
\* so that it holds two holes
C15_Witness ==
    /\ Built /\ Cardinality(HandleLinksWith(NamedRole)) = 2
    /\ \E k \in 1..2 : InLinks[k].rargname = RSTR_ROLE
    /\ Cardinality(DOMAIN hcons) = 2

(***************************************************************************)
(* Mrs, Mrs.to_dict, Mrs.from_dict and Rmrs.  An EP record may come        *)
(* without a node id (NoNodeid).  The properties of a variable are a       *)
(* list of (property, value) pairs; dict(props) is the function from       *)
(* property to value.                                                      *)
(***************************************************************************)
FIRST_NODEID == 10000

\* the node id of an EP record that has none (None where an integer stands)
NoNodeid == -1

\* the first loop of Mrs.__init__: next_nodeid after the EPs from position i
RECURSIVE NextNodeid(_, _, _)
NextNodeid(epsL, i, next) ==
    IF i > Len(epsL) THEN next
    ELSE IF epsL[i].nodeid # NoNodeid /\ epsL[i].nodeid >= next
         THEN NextNodeid(epsL, i + 1, epsL[i].nodeid + 1)
         ELSE NextNodeid(epsL, i + 1, next)

\* the node id given to the id-less EP at position i (enumerate counts from 0)
AssignedId(epsL, i, next) == next + (i - 1)

\* the second loop of Mrs.__init__
WithNodeids(epsL) ==
    LET next == NextNodeid(epsL, 1, FIRST_NODEID) IN
    [i \in 1..Len(epsL) |->
        IF epsL[i].nodeid = NoNodeid
        THEN [epsL[i] EXCEPT !.nodeid = AssignedId(epsL, i, next)]
        ELSE epsL[i]]

\* Mrs(top, index, xarg, rels, hcons, icons, vars)
Mrs(t, i, x, rels, hconsL, iconsL, vmap) ==
    XmrsInit(t, i, x, WithNodeids(rels), hconsL, iconsL, vmap)

\* dict(props) for a list of pairs
PropsDict(props) ==
    [k \in {props[j][1] : j \in 1..Len(props)} |->
        props[CHOOSE j \in 1..Len(props) :
                 /\ props[j][1] = k
                 /\ \A m \in (j + 1)..Len(props) : props[m][1] # k][2]]

\* "if hasattr(props, 'items'): props = list(props.items())" for a dict
PropsItems(d) == LET ks == SetToSeq(DOMAIN d) IN [j \in 1..Len(ks) |-> <<ks[j], d[ks[j]]>>]

\* Pred.short_form and Pred.string_or_grammar_pred: the export form of a
\* predicate and its inverse
short_form(p) == <<"short", p>>
string_or_grammar_pred(s) == s[2]

\* components.var_sort: the letters before the serial number
var_sort(v) == CHOOSE s \in {"h", "x", "e"} : v \in {s \o ToString(i) : i \in Serials}

\* Xmrs.icons(): the ICONS of all left variables, in one list
RECURSIVE IconsList(_, _)
IconsList(ics, lefts) ==
    IF lefts = <<>> THEN <<>>
    ELSE ics[Head(lefts)] \o IconsList(ics, Tail(lefts))

\* Xmrs.hcons(): the HCONS in one list
HconsList(hcs) == LET his == SetToSeq(DOMAIN hcs) IN [j \in 1..Len(his) |-> hcs[his[j]]]

\* Mrs.to_dict(): the export dict (no lnk: the EPs of the model have none)
to_dict(g) ==
    LET _ep(ep) == [label |-> ep.label, predicate |-> short_form(ep.pred),
                    arguments |-> ep.args]
        _hcons(hc) == [relation |-> hc.rel, high |-> hc.hi, low |-> hc.lo]
        _icons(ic) == [relation |-> ic.rel, left |-> ic.left, right |-> ic.right]
        _var(v) == IF g.vars[v].props # <<>>
                   THEN [type |-> var_sort(v), properties |-> PropsDict(g.vars[v].props)]
                   ELSE [type |-> var_sort(v)]
        hl == HconsList(g.hcons)
        il == IconsList(g.icons, SetToSeq(DOMAIN g.icons))
        d == [relations |-> [k \in 1..Len(g.nodeids) |-> _ep(g.eps[g.nodeids[k]])],
              constraints |-> [k \in 1..Len(hl) |-> _hcons(hl[k])]
                              \o [k \in 1..Len(il) |-> _icons(il[k])],
              variables |-> [v \in DOMAIN g.vars |-> _var(v)]]
        d1 == IF g.top # NoneV THEN ("top" :> g.top) @@ d ELSE d
    IN IF g.index # NoneV THEN ("index" :> g.index) @@ d1 ELSE d1

\* d.get(key)
Get(d, key) == IF key \in DOMAIN d THEN d[key] ELSE NoneV

\* the list of ICONS of from_dict: c['high'], c['relation'], c['low'] of the
\* constraints that have the key left
FromDictIcons(cs) ==
    LET sel == SelectSeq(cs, LAMBDA c : "left" \in DOMAIN c) IN
    IF \E k \in 1..Len(sel) : "high" \notin DOMAIN sel[k] \/ "low" \notin DOMAIN sel[k]
    THEN [raised |-> "KeyError", val |-> <<>>]
    ELSE [raised |-> NoneV,
          val |-> [k \in 1..Len(sel) |-> [left |-> sel[k]["high"], rel |-> sel[k]["relation"],
                                          right |-> sel[k]["low"]]]]

\* Mrs.from_dict(d)
from_dict(d) ==
    LET rels == [k \in 1..Len(d["relations"]) |->
                    EP(NoNodeid, string_or_grammar_pred(d["relations"][k]["predicate"]),
                       d["relations"][k]["label"], d["relations"][k]["arguments"])]
        hsel == SelectSeq(d["constraints"], LAMBDA c : "high" \in DOMAIN c)
        hcs == [k \in 1..Len(hsel) |-> [hi |-> hsel[k]["high"], rel |-> hsel[k]["relation"],
                                        lo |-> hsel[k]["low"]]]
        ics == FromDictIcons(d["constraints"])
        variables == [v \in DOMAIN d["variables"] |->
                         PropsItems([k \in DOMAIN d["variables"][v] \ {"type"} |->
                                        d["variables"][v][k]])]
    IN IF ics.raised # NoneV
       THEN [raised |-> ics.raised, g |-> EmptyGraph(NoneV, NoneV, NoneV)]
       ELSE Mrs(Get(d, "top"), Get(d, "index"), Get(d, "xarg"), rels, hcs, ics.val, variables)

\* Rmrs(top, index, xarg, eps, args, hcons, icons, vars): args is the side
\* table, a dict from node id to {role: value}.  "for arg in list(args)"
\* visits its keys and reads arg.nodeid of each; "args.get" is read for each
\* EP that has a node id.
Rmrs(t, i, x, epsL, args, hconsL, iconsL, vmap) ==
    IF DOMAIN args # {}
    THEN [raised |-> "AttributeError", g |-> EmptyGraph(NoneV, NoneV, NoneV)]
    ELSE IF epsL # <<>>
    THEN [raised |-> IF epsL[1].nodeid = NoNodeid THEN "XmrsStructureError"
                     ELSE "AttributeError",
          g |-> EmptyGraph(NoneV, NoneV, NoneV)]
    ELSE XmrsInit(t, i, x, epsL, hconsL, iconsL, vmap)

(***************************************************************************)
(* subgraph(nodeids): the graph it returns, or the exception.              *)
(***************************************************************************)
\* the top of the subgraph, kept only with a qeq to a kept label (the mutant
\* of SubTop)
SubTopOnlyQeq(g, lbls) ==
    IF g.top = NoneV \/ g.top = "" THEN NoneV
    ELSE IF g.top \in DOMAIN g.hcons /\ g.hcons[g.top].lo \in lbls THEN g.top
    ELSE NoneV

\* the top of the subgraph, kept whenever it has an HCONS in the graph
\* (another mutant of SubTop)
SubTopAnyQeq(g, lbls) ==
    IF g.top = NoneV \/ g.top = "" THEN NoneV
    ELSE IF g.top \in DOMAIN g.hcons THEN g.top
    ELSE IF g.top \notin lbls THEN NoneV
    ELSE g.top

\* the top of the subgraph
SubTop(g, lbls) ==
    IF g.top = NoneV \/ g.top = "" THEN NoneV
    ELSE IF g.top \in DOMAIN g.hcons /\ g.hcons[g.top].lo \in lbls THEN g.top
    ELSE IF g.top \notin lbls THEN NoneV
    ELSE g.top

\* the variables of the subgraph with their properties: top when it has a
\* qeq to a kept label, xarg, the kept labels, the arguments of the kept EPs
\* that are in _vars (a later entry replaces an earlier one)
SubVars(g, epsL, lbls) ==
    LET argvars == {v \in DOMAIN g.vars :
                       \E k \in 1..Len(epsL) : \E r \in DOMAIN epsL[k].args :
                           epsL[k].args[r] = v}
        t == IF g.top # NoneV /\ g.top # "" /\ g.top \in DOMAIN g.hcons
                /\ g.hcons[g.top].lo \in lbls
             THEN {g.top} ELSE {}
        x == IF g.xarg # NoneV /\ g.xarg # "" THEN {g.xarg} ELSE {}
    IN [v \in t \cup x \cup lbls \cup argvars |->
           IF v \in argvars THEN g.vars[v].props
           ELSE IF v \in lbls THEN <<>>
           ELSE IF v \in x THEN g.vars[v].props
           ELSE <<>>]

\* the index of the subgraph, kept whatever the variables (the mutant of
\* SubIndex)
SubIndexAlways(g, subvars) == g.index

\* the index of the subgraph
SubIndex(g, subvars) == IF g.index \in DOMAIN subvars THEN g.index ELSE NoneV

\* the variables of the subgraph whose property list is the list object of
\* the graph itself: subvars takes _vars[var]['props'] for xarg and for the
\* arguments of the kept EPs, and Xmrs.__init__ stores a value that has no
\* 'items' as it is; the {} of top and of a label becomes a new list
SubShared(g, epsL, lbls) ==
    LET argvars == {v \in DOMAIN g.vars :
                       \E k \in 1..Len(epsL) : \E r \in DOMAIN epsL[k].args :
                           epsL[k].args[r] = v}
        x == IF g.xarg # NoneV /\ g.xarg # "" THEN {g.xarg} ELSE {}
    IN argvars \cup (x \ lbls)

\* the HCONS of the subgraph collected once for every kept EP (the mutant of
\* SubHcons)
SubHconsPerEp(g, subvars, lbls) ==
    HconsList([hi \in {v \in DOMAIN subvars \cap DOMAIN g.hcons : g.hcons[v].lo \in lbls}
                  |-> g.hcons[hi]])
    \o HconsList([hi \in {v \in DOMAIN subvars \cap DOMAIN g.hcons : g.hcons[v].lo \in lbls}
                  |-> g.hcons[hi]])

\* the HCONS of the subgraph without the test of the low handle (another
\* mutant of SubHcons)
SubHconsAnyLo(g, subvars, lbls) ==
    HconsList([hi \in DOMAIN subvars \cap DOMAIN g.hcons |-> g.hcons[hi]])

\* the HCONS and the ICONS of the subgraph
SubHcons(g, subvars, lbls) ==
    HconsList([hi \in {v \in DOMAIN subvars \cap DOMAIN g.hcons : g.hcons[v].lo \in lbls}
                  |-> g.hcons[hi]])

SubIcons(g, subvars) ==
    SelectSeq(IconsList(g.icons, SetToSeq(DOMAIN subvars \cap DOMAIN g.icons)),
              LAMBDA ic : ic.left \in DOMAIN subvars /\ ic.right \in DOMAIN subvars)

\* Xmrs.subgraph(nodeids)
subgraph(g, ids) ==
    IF \E k \in 1..Len(ids) : ids[k] \notin DOMAIN g.eps
    THEN [raised |-> "KeyError", g |-> EmptyGraph(NoneV, NoneV, NoneV)]
    ELSE LET epsL == [k \in 1..Len(ids) |-> g.eps[ids[k]]]
             lbls == {epsL[k].label : k \in 1..Len(epsL)}
             subvars == SubVars(g, epsL, lbls)
         IN XmrsInit(SubTop(g, lbls), SubIndex(g, subvars),
                     IF g.xarg # NoneV /\ g.xarg # "" THEN g.xarg ELSE NoneV,
                     epsL, SubHcons(g, subvars, lbls), SubIcons(g, subvars), subvars)

(***************************************************************************)
(* Xmrs.__eq__                                                             *)
(***************************************************************************)
\* sorted(list): the bag of the elements of a list of distinct-or-not values
BagOf(s) == [v \in RangeOf(s) |-> Cardinality({k \in 1..Len(s) : s[k] = v})]

XmrsEq(a, b) ==
    /\ <<a.top, a.index, a.xarg>> = <<b.top, b.index, b.xarg>>
    /\ BagOf(EpSeq(a)) = BagOf(EpSeq(b))
    /\ BagOf(HconsList(a.hcons)) = BagOf(HconsList(b.hcons))
    /\ BagOf(IconsList(a.icons, SetToSeq(DOMAIN a.icons)))
          = BagOf(IconsList(b.icons, SetToSeq(DOMAIN b.icons)))

(***************************************************************************)
(* SpecMrs: one call of the Mrs or of the Rmrs constructor, and on the     *)
(* graph Mrs has built the round trip through the export dict and the      *)
(* subgraphs.  ret.val holds the graph that from_dict or subgraph returns  *)
(* (a new object; the graph itself is left as it is).                      *)
(***************************************************************************)
MrsShapes == {<<"h1", IVARG_ROLE :> "e2">>, <<"h1", EmptyMap>>, <<"h2", EmptyMap>>}
MrsIds == {NoNodeid, 5, FIRST_NODEID + 1}
MrsEps == {EP(n, "_p", s[1], s[2]) : n \in MrsIds, s \in MrsShapes}
MrsLens == {0, 1, 2}

InputsMrs ==
    [top : {NoneV, "h0", "h1"}, index : {NoneV, "e2"}, xarg : {NoneV, "x3"},
     rels : UNION {[1..k -> MrsEps] : k \in MrsLens},
     hcons : {<<>>, <<HC("h0", "h1")>>, <<HC("h0", "h9")>>},
     icons : {<<>>, <<IC("e2", "x3")>>},
     vars : {EmptyMap, "e2" :> <<<<"TENSE", "pres">>>>}]

MrsNewAny ==
    /\ ret.op = "init"
    /\ \E in \in InputsMrs :
          LET r == Mrs(in.top, in.index, in.xarg, in.rels, in.hcons, in.icons, in.vars) IN
          /\ Becomes(r.g)
          /\ ret' = Ret("Mrs", in, r.raised, NoneV)

\* the side tables of Rmrs: node id (or none) -> {role: value}
SideTables ==
    {EmptyMap, 5 :> ("ARG1" :> "x3"), NoNodeid :> ("ARG1" :> "x3"),
     (5 :> ("ARG1" :> "x3")) @@ ((FIRST_NODEID + 1) :> ("ARG1" :> "x3"))}

RmrsNewAny ==
    /\ ret.op = "init"
    /\ \E rels \in UNION {[1..k -> MrsEps] : k \in MrsLens}, args \in SideTables :
          LET r == Rmrs(NoneV, NoneV, NoneV, rels, args, <<>>, <<>>, EmptyMap) IN
          /\ Becomes(r.g)
          /\ ret' = Ret("Rmrs", [rels |-> rels, args |-> args], r.raised, NoneV)

RoundTrip ==
    /\ ret.op = "Mrs" /\ ret.raised = NoneV
    /\ LET r == from_dict(to_dict(self)) IN
       ret' = Ret("from_dict", NoneV, r.raised, r.g)
    /\ UNCHANGED <<top, index, xarg, nodeids, eps, hcons, icons, vars>>

\* the sub-lists of a list (the elements at the positions of S, in order)
SubLists(s) ==
    {[k \in 1..Cardinality(S) |->
         s[CHOOSE i \in S : Cardinality({j \in S : j <= i}) = k]] :
        S \in SUBSET (1..Len(s))}

SubgraphAny ==
    /\ ret.op = "Mrs" /\ ret.raised = NoneV
    /\ \E ids \in SubLists(nodeids) :
          LET r == subgraph(self, ids) IN
          ret' = Ret("subgraph", ids, r.raised, r.g)
    /\ UNCHANGED <<top, index, xarg, nodeids, eps, hcons, icons, vars>>

NextMrs == MrsNewAny \/ RmrsNewAny \/ RoundTrip \/ SubgraphAny

SpecMrs == Init /\ [][NextMrs]_state

(***************************************************************************)
(* Claims about Mrs, Rmrs, the export round trip and subgraph (SpecMrs).   *)
(***************************************************************************)
\* the node ids the EP records of the call came with
ExplicitIds(rels) == {rels[k].nodeid : k \in 1..Len(rels)} \ {NoNodeid}

\* one above the largest explicit node id, or the default start when no
\* explicit node id reaches it
StartId(rels) ==
    LET ex == ExplicitIds(rels) IN
    IF ex = {} \/ \A n \in ex : n < FIRST_NODEID THEN FIRST_NODEID
    ELSE 1 + CHOOSE n \in ex : \A m \in ex : m <= n

\* C16: the EPs that come without a node id receive consecutive node ids in
\* list order: the k-th of them receives StartId + k - 1, wherever it stands
\* among the EPs that come with a node id (which keep theirs).
C16_IdsConsecutive ==
    ret.op = "Mrs" /\ ret.raised = NoneV =>
       LET rels == ret.arg.rels IN
       /\ Len(nodeids) = Len(rels)
       /\ \A i \in 1..Len(rels) :
             nodeids[i] =
                IF rels[i].nodeid # NoNodeid THEN rels[i].nodeid
                ELSE StartId(rels)
                     + Cardinality({j \in 1..i : rels[j].nodeid = NoNodeid}) - 1

\* C17: Rmrs fails with the anchor-required structure error exactly when an
\* EP or a side-table entry lacks a node id; otherwise (the node ids being
\* distinct) it returns a graph in which the argument map of every EP holds
\* its own arguments and the side-table entries for its node id.
C17_RmrsMergesSideTable ==
    ret.op = "Rmrs" =>
       LET rels == ret.arg.rels
           args == ret.arg.args
           lacks == (\E k \in 1..Len(rels) : rels[k].nodeid = NoNodeid)
                    \/ NoNodeid \in DOMAIN args
       IN /\ (ret.raised = "XmrsStructureError") <=> lacks
          /\ ~lacks /\ (\A j, k \in 1..Len(rels) : j # k => rels[j].nodeid # rels[k].nodeid)
             => /\ ret.raised = NoneV
                /\ \A k \in 1..Len(rels) :
                      /\ rels[k].nodeid \in DOMAIN eps
                      /\ eps[rels[k].nodeid].args =
                            (IF rels[k].nodeid \in DOMAIN args
                             THEN args[rels[k].nodeid] ELSE EmptyMap) @@ rels[k].args

\* C18: for a graph g built by Mrs, Mrs.from_dict(g.to_dict()) succeeds and
\* equals g: same top, index and xarg, the same EPs, HCONS and ICONS.
C18_RoundTripEqual ==
    ret.op = "from_dict" =>
       /\ ret.raised = NoneV
       /\ <<ret.val.top, ret.val.index, ret.val.xarg>> = <<top, index, xarg>>
       /\ ret.val.eps = eps /\ ret.val.hcons = hcons
       /\ ret.val.icons = icons

\* the labels and the argument values of the EPs with the node ids of ids
LabelsOf(ids) == {eps[ids[k]].label : k \in 1..Len(ids)}
ArgValuesOf(ids) ==
    UNION {{eps[ids[k]].args[r] : r \in DOMAIN eps[ids[k]].args} : k \in 1..Len(ids)}

\* top has a qeq HCONS whose low handle is a label of the EPs of ids
TopQeqInto(ids) ==
    top # NoneV /\ top \in DOMAIN hcons /\ hcons[top].lo \in LabelsOf(ids)

\* the variables reachable from the EPs of ids: their labels, their argument
\* values that are variables, xarg, and top when it has a qeq into them
ReachableFrom(ids) ==
    LabelsOf(ids) \cup (ArgValuesOf(ids) \cap DOMAIN vars)
    \cup ({xarg} \ {NoneV}) \cup (IF TopQeqInto(ids) THEN {top} ELSE {})

\* the graph sub has the EPs of ids, the xarg of the graph, and of its HCONS
\* and ICONS those between reachable variables
SameButUnreachable(sub, ids) ==
    /\ sub.xarg = xarg
    /\ sub.nodeids = ids
    /\ sub.eps = [n \in RangeOf(ids) |-> eps[n]]
    /\ DOMAIN sub.hcons = {hi \in DOMAIN hcons \cap ReachableFrom(ids) :
                              hcons[hi].lo \in LabelsOf(ids)}
    /\ \A hi \in DOMAIN sub.hcons : sub.hcons[hi] = hcons[hi]
    /\ DOMAIN sub.icons \subseteq DOMAIN icons
    /\ \A l \in DOMAIN icons :
          LET kept == SelectSeq(icons[l], LAMBDA ic :
                          ic.left \in ReachableFrom(ids) /\ ic.right \in ReachableFrom(ids))
          IN IF l \in DOMAIN sub.icons THEN sub.icons[l] = kept ELSE kept = <<>>

\* C19 as claimed: subgraph applied to the full list of node ids returns a
\* graph equal to the graph but for HCONS and ICONS of unreachable
\* variables; top and index are never dropped.
C19_FullSubgraphAsClaimed ==
    ret.op = "subgraph" /\ ret.arg = nodeids =>
       /\ ret.raised = NoneV
       /\ SameButUnreachable(ret.val, nodeids)
       /\ ret.val.top = top /\ ret.val.index = index

\* C19: subgraph applied to the full list of node ids returns a graph with
\* the same xarg and EPs, and the HCONS and ICONS between reachable
\* variables; it keeps top when top has a qeq to the label of an EP or is
\* the label of an EP, and index when index is a reachable variable;
\* otherwise top, respectively index, is unset.
C19_FullSubgraph ==
    ret.op = "subgraph" /\ ret.arg = nodeids =>
       /\ ret.raised = NoneV
       /\ SameButUnreachable(ret.val, nodeids)
       /\ ret.val.top = IF TopQeqInto(nodeids) \/ top \in LabelsOf(nodeids)
                        THEN top ELSE NoneV
       /\ ret.val.index = IF index \in ReachableFrom(nodeids) THEN index ELSE NoneV

\* subgraph of all the node ids of a graph of two EPs dropped the index and
\* kept top with its HCONS
C19_Witness ==
    /\ ret.op = "subgraph" /\ ret.arg = nodeids /\ Len(nodeids) = 2
    /\ index # NoneV /\ ret.val.index = NoneV
    /\ top # NoneV /\ ret.val.top = top /\ DOMAIN ret.val.hcons # {}

\* C20 as claimed: subgraph keeps top exactly when top is set and its qeq
\* HCONS has a low label among the labels of the kept EPs; otherwise the top
\* of the result is unset.
C20_TopKeptAsClaimed ==
    ret.op = "subgraph" /\ ret.raised = NoneV =>
       ret.val.top = IF TopQeqInto(ret.arg) THEN top ELSE NoneV

\* C20: subgraph keeps top exactly when top is set and either its qeq HCONS
\* has a low label among the labels of the kept EPs or top is itself the
\* label of a kept EP; otherwise the top of the result is unset.
C20_TopKept ==
    ret.op = "subgraph" /\ ret.raised = NoneV =>
       ret.val.top = IF top # NoneV /\ (\/ (top \in DOMAIN hcons
                                            /\ hcons[top].lo \in LabelsOf(ret.arg))
                                        \/ top \in LabelsOf(ret.arg))
                     THEN top ELSE NoneV

\* subgraph of one of two EPs kept a top that has no HCONS and is the label
\* of the kept EP
C20_Witness ==
    /\ ret.op = "subgraph" /\ ret.raised = NoneV
    /\ Len(ret.arg) = 1 /\ Len(nodeids) = 2
    /\ top # NoneV /\ top \notin DOMAIN hcons /\ ret.val.top = top

(***************************************************************************)
(* SpecSub: one call of Xmrs(...) with up to three EPs under the node ids  *)
(* 1, 2, 3 (a predication, a predication with a hole as argument, a        *)
(* predication without label whose argument is a constant), HCONS from top *)
(* and from the hole to the label of the first predication, then subgraph  *)
(* with any duplicate-free list of its node ids, and subgraph of a         *)
(* subgraph.  ret.val holds the graph(s) returned; the graph itself is     *)
(* left as it is.                                                          *)
(***************************************************************************)
SubShapes ==
    {<<"h1", IVARG_ROLE :> "e2">>,
     <<"h2", (IVARG_ROLE :> "x3") @@ ("ARG1" :> "h5")>>,
     <<NoneV, "ARG1" :> "c">>}

SubLens == {0, 1, 2, 3}

\* the EP lists: the k-th EP has the node id k
SubRels ==
    UNION {{[i \in 1..k |-> EP(i, "_p", f[i][1], f[i][2])] : f \in [1..k -> SubShapes]} :
              k \in SubLens}

InputsSub ==
    [top : {NoneV, "h0", "h1"}, index : {NoneV, "e2"}, xarg : {NoneV, "x3"},
     rels : SubRels,
     hcons : {<<>>, <<HC("h0", "h1")>>, <<HC("h5", "h1")>>,
              <<HC("h0", "h1"), HC("h5", "h1")>>},
     icons : {<<>>, <<IC("e2", "x3")>>},
     vars : {EmptyMap, "e2" :> <<<<"TENSE", "pres">>>>}]

XmrsNew(Inputs) ==
    /\ ret.op = "init"
    /\ \E in \in Inputs :
          LET r == XmrsInit(in.top, in.index, in.xarg, in.rels, in.hcons, in.icons, in.vars) IN
          /\ Becomes(r.g)
          /\ ret' = Ret("Xmrs", in, r.raised, NoneV)

XmrsNewSub == XmrsNew(InputsSub)

\* the duplicate-free lists over the elements of a list, in any order
DupFreeLists(s) ==
    UNION {{f \in [1..Cardinality(S) -> S] : \A i, j \in DOMAIN f : i # j => f[i] # f[j]} :
              S \in SUBSET RangeOf(s)}

SubgraphOf ==
    /\ ret.op = "Xmrs" /\ ret.raised = NoneV
    /\ \E ids \in DupFreeLists(nodeids) :
          LET r == subgraph(self, ids) IN
          ret' = Ret("subgraph", ids, r.raised, r.g)
    /\ UNCHANGED <<top, index, xarg, nodeids, eps, hcons, icons, vars>>

\* g.subgraph(S).subgraph(T) and g.subgraph(T) for T within S
SubgraphTwice ==
    /\ ret.op = "Xmrs" /\ ret.raised = NoneV
    /\ \E S \in SubLists(nodeids) : \E T \in SubLists(S) :
          LET s == subgraph(self, S)
              st == subgraph(s.g, T)
              t == subgraph(self, T)
          IN ret' = Ret("subgraph.subgraph", [S |-> S, T |-> T],
                        IF s.raised # NoneV THEN s.raised
                        ELSE IF st.raised # NoneV THEN st.raised ELSE t.raised,
                        [st |-> st.g, t |-> t.g])
    /\ UNCHANGED <<top, index, xarg, nodeids, eps, hcons, icons, vars>>

NextSub == XmrsNewSub \/ SubgraphOf \/ SubgraphTwice

SpecSub == Init /\ [][NextSub]_state

(***************************************************************************)
(* Claims about subgraph on any graph (under SpecSub).                     *)
(***************************************************************************)
\* C21: subgraph applied to any duplicate-free list of node ids of the graph
\* (all of them or some, connected or not) returns a graph and never raises;
\* so does subgraph applied to the graph it returned.
C21_SubgraphNeverRaises ==
    ret.op \in {"subgraph", "subgraph.subgraph"} => ret.raised = NoneV

\* subgraph returned, with an HCONS, for two of three EPs that share neither
\* a label nor a variable, one of them without a label
C21_Witness ==
    /\ ret.op = "subgraph" /\ ret.raised = NoneV
    /\ Len(nodeids) = 3 /\ Len(ret.arg) = 2
    /\ DOMAIN ret.val.hcons # {}
    /\ \E n \in RangeOf(ret.arg) : eps[n].label = NoneV

\* C29: the graph subgraph returns has no dangling constraint: the low
\* handle of each of its HCONS is the label of one of its EPs, both
\* variables of each of its ICONS are in its Variable Table, and its index
\* is unset or in its Variable Table.
C29_NoDanglingConstraint ==
    ret.op = "subgraph" /\ ret.raised = NoneV =>
       LET sub == ret.val IN
       /\ \A hi \in DOMAIN sub.hcons :
             \E n \in DOMAIN sub.eps : sub.eps[n].label = sub.hcons[hi].lo
       /\ \A l \in DOMAIN sub.icons : \A k \in 1..Len(sub.icons[l]) :
             /\ sub.icons[l][k].left \in DOMAIN sub.vars
             /\ sub.icons[l][k].right \in DOMAIN sub.vars
       /\ sub.index = NoneV \/ sub.index \in DOMAIN sub.vars

\* subgraph kept the EP with the hole and dropped the EP whose label the
\* HCONS of the hole points to: the HCONS of the hole, the ICONS and the
\* index of the graph, which would dangle, are not in the result
C29_Witness ==
    /\ ret.op = "subgraph" /\ ret.raised = NoneV
    /\ "h5" \in DOMAIN hcons /\ "h5" \in DOMAIN ret.val.vars
    /\ "h5" \notin DOMAIN ret.val.hcons
    /\ DOMAIN icons # {} /\ DOMAIN ret.val.icons = {}
    /\ index # NoneV /\ ret.val.index = NoneV

\* C30: for node-id lists T within S within the node ids of a graph g,
\* g.subgraph(S).subgraph(T) equals g.subgraph(T) under Xmrs.__eq__ (the
\* same top, index and xarg, the same EPs, HCONS and ICONS as bags); with
\* T = S, subgraph is idempotent.
C30_SubgraphComposes ==
    ret.op = "subgraph.subgraph" =>
       /\ ret.raised = NoneV
       /\ XmrsEq(ret.val.st, ret.val.t)

\* T is a strict part of S and S a strict part of the node ids; the graph
\* has a top with an HCONS that the result keeps, and an HCONS that S keeps
\* and T drops
C30_Witness ==
    /\ ret.op = "subgraph.subgraph" /\ ret.raised = NoneV
    /\ Len(ret.arg.T) < Len(ret.arg.S) /\ Len(ret.arg.S) < Len(nodeids)
    /\ Len(ret.arg.T) > 0
    /\ ret.val.t.top # NoneV /\ ret.val.t.top \in DOMAIN ret.val.t.hcons
    /\ Cardinality(DOMAIN hcons) = 2
    /\ Cardinality(DOMAIN ret.val.t.hcons) = 1

(***************************************************************************)
(* SpecOwn: a graph of up to two EPs, one call of subgraph, then one       *)
(* property appended to the property list of a variable, reached through   *)
(* the source graph or through the graph subgraph returned                 *)
(* (properties(var, as_list=True) hands out the list itself).  A list      *)
(* object that both graphs hold changes in both.                           *)
(***************************************************************************)
OwnLens == {0, 1, 2}

InputsOwn ==
    [top : {NoneV, "h0"}, index : {NoneV}, xarg : {NoneV, "x3"},
     rels : UNION {{[i \in 1..k |-> EP(i, "_p", f[i][1], f[i][2])] : f \in [1..k -> SubShapes]} :
                      k \in OwnLens},
     hcons : {<<>>, <<HC("h0", "h1")>>},
     icons : {<<>>},
     vars : {EmptyMap, "e2" :> <<<<"TENSE", "pres">>>>}]

XmrsNewOwn == XmrsNew(InputsOwn)

\* the variables whose property list the graph g and g.subgraph(ids) share
SharedProps(g, ids) ==
    LET epsL == [k \in 1..Len(ids) |-> g.eps[ids[k]]] IN
    SubShared(g, epsL, {epsL[k].label : k \in 1..Len(epsL)})

NewProperty == <<"MOOD", "ind">>

\* graph.properties(v, as_list=True).append(NewProperty), graph being the
\* source or the result of the subgraph call
AppendProperty ==
    /\ ret.op = "subgraph" /\ ret.raised = NoneV
    /\ \E v \in DOMAIN ret.val.vars, through \in {"source", "result"} :
          LET shared == v \in SharedProps(self, ret.arg) IN
          /\ through = "source" => v \in DOMAIN vars
          /\ vars' = IF through = "source" \/ shared
                     THEN [vars EXCEPT ![v].props = Append(@, NewProperty)]
                     ELSE vars
          /\ ret' = Ret("append", [var |-> v, through |-> through], NoneV,
                        IF through = "result" \/ shared
                        THEN [ret.val EXCEPT !.vars[v].props = Append(@, NewProperty)]
                        ELSE ret.val)
    /\ UNCHANGED <<top, index, xarg, nodeids, eps, hcons, icons>>

NextOwn == XmrsNewOwn \/ SubgraphOf \/ AppendProperty

SpecOwn == Init /\ [][NextOwn]_state

\* C22: subgraph leaves the source graph as it was, and the two graphs share
\* no property list: a property appended through the graph subgraph
\* returned does not show in the source, and one appended through the
\* source does not show in the result.
C22_SubgraphOwnsItsData ==
    [][/\ ret'.op = "subgraph"
             => UNCHANGED <<top, index, xarg, nodeids, eps, hcons, icons, vars>>
       /\ ret'.op = "append" /\ ret'.arg.through = "result" => vars' = vars
       /\ ret'.op = "append" /\ ret'.arg.through = "source" => ret'.val = ret.val]_state

(***************************************************************************)
(* Claims about the queries as operations on a built graph (SpecWF), about *)
(* failing batches (Spec) and about the traversal of is_connected (Spec).  *)
(***************************************************************************)
QueryOps == {"is_connected", "validate", "is_well_formed", "labelset_heads", "incoming_args"}

\* C23: a query leaves the graph as it was: the EPs, HCONS and ICONS are
\* unchanged and the Variable Table has the same variables afterwards, so
\* variables() and the membership tests answer as before, also on a graph
\* with an EP that has no label.
C23_QueriesLeaveGraph ==
    [][ret'.op \in QueryOps
          => /\ UNCHANGED <<top, index, xarg, nodeids, eps, hcons, icons>>
             /\ DOMAIN vars' = DOMAIN vars]_state

\* C24: is_well_formed() returns True only for a graph in which every EP
\* whose intrinsic variable is of the sort x has a quantifier: a quantifier
\* EP with that variable as its bound variable.
C24_WellFormedNominalsQuantified ==
    ret.op = "is_well_formed" /\ ret.raised = NoneV /\ ret.val = TRUE =>
       \A n \in DOMAIN eps :
           IvOf(eps[n]) # NoneV /\ var_sort(IvOf(eps[n])) = "x" =>
              \E q \in DOMAIN eps :
                  is_quantifier(eps[q]) /\ IvOf(eps[q]) = IvOf(eps[n])

\* C25: when an add operation raises, the graph is as it was before the
\* call: none of the records of the failing batch is left in it.
C25_FailedBatchLeavesNothing ==
    [][ret'.op \in {"add_eps", "add_hcons", "add_icons"} /\ ret'.raised # NoneV
          => UNCHANGED <<top, index, xarg, nodeids, eps, hcons, icons, vars>>]_state

\* C26: on every reachable graph the edges is_connected builds join node ids
\* of the graph only, so the adjacency is built without a missing key, the
\* traversal from any start reaches node ids of the graph only, and
\* is_connected raises neither the 'bogus nodeids' failure nor a KeyError.
C26_TraversalWithinNodeIds ==
    nodeids # <<>> =>
       LET nids == RangeOf(nodeids)
           edges == ConnEdges(self)
       IN /\ \A e \in edges : e[1] \in nids /\ e[2] \in nids
          /\ \A s \in nids :
                /\ bfs(Adjacency(nids, edges), s) \subseteq nids
                /\ is_connected(self, s).raised = NoneV
          /\ ret.op = "is_connected" => ret.raised = NoneV

\* is_connected() returned False on a graph of three EPs some of which are
\* joined by an edge: the traversal reached some of the node ids only
C26_Witness ==
    /\ ret.op = "is_connected" /\ ret.raised = NoneV /\ ret.val = FALSE
    /\ Len(nodeids) = 3 /\ ConnEdges(self) # {}

(***************************************************************************)
(* Claims about the graph the Dmrs constructor builds (under SpecDmrs).    *)
(***************************************************************************)
\* every link starts at a node of the input or at the reserved top id and
\* ends at a node of the input
LinksDeclared ==
    \A k \in 1..Len(InLinks) :
        /\ InLinks[k].start \in InNodeIds \cup {LTOP_NODEID}
        /\ InLinks[k].end \in InNodeIds

\* C27: for a DMRS whose links reference declared nodes only, the
\* constructor succeeds and the graph has one EP per input node, with the
\* id and the predicate of the node, in input order; also for a node that
\* no link starts from, a quantifier node included.
C27_OneEpPerNode ==
    ret.op = "Dmrs" /\ LinksDeclared =>
       /\ ret.raised = NoneV
       /\ nodeids = [k \in 1..Len(InNodes) |-> InNodes[k].nodeid]
       /\ \A k \in 1..Len(InNodes) :
             /\ InNodes[k].nodeid \in DOMAIN eps
             /\ eps[InNodes[k].nodeid].pred = InNodes[k].pred

\* the links that do not start at the reserved top id
NonTopLinks == {k \in 1..Len(InLinks) : InLinks[k].start # LTOP_NODEID}

\* the nodes joined to those of S by a chain of non-top links
RECURSIVE LinkClosure(_)
LinkClosure(S) ==
    LET T == S \cup {b \in InNodeIds : \E a \in S : \E k \in NonTopLinks :
                        {InLinks[k].start, InLinks[k].end} = {a, b}}
    IN IF T = S THEN S ELSE LinkClosure(T)

\* the DMRS of C28: at most one top link, the nodes joined into one by the
\* non-top links, each of which is tagged equality or carries a non-empty
\* role other than NIL, and an RSTR handle link from every quantifier node
ConnectedDmrs ==
    /\ LinksDeclared
    /\ Cardinality({k \in 1..Len(InLinks) : InLinks[k].start = LTOP_NODEID}) <= 1
    /\ \A n \in InNodeIds : LinkClosure({n}) = InNodeIds
    /\ \A k \in NonTopLinks : InLinks[k].post = EQ_POST \/ ~BareLink(InLinks[k])
    /\ \A n \in InNodeIds :
          QuantifierNode(InNodes, n) =>
             \E k \in NonTopLinks :
                 /\ InLinks[k].start = n /\ InLinks[k].post = H_POST
                 /\ Upper(InLinks[k].rargname) = RSTR_ROLE

\* C28: for such a DMRS the constructor returns a graph, and is_connected()
\* on it returns True.
C28_ConnectedDmrsGivesConnectedGraph ==
    ret.op = "Dmrs" /\ ConnectedDmrs =>
       /\ ret.raised = NoneV
       /\ \A s \in RangeOf(nodeids) :
             LET c == is_connected(self, s) IN c.raised = NoneV /\ c.val = TRUE

====
